---- MODULE Spec2Model ----
(***************************************************************************)
(* A model of the axutils command line tools (TouchNetix aXiom):           *)
(*   axcfg.py  - loading a .th2cfgbin config file onto a device            *)
(*   axfw.py   - downloading a .axfw / .alc firmware image                 *)
(*   axrpt.py  - reading and decoding the reports of the device            *)
(* The device and the axiom_tc library are the environment: every library  *)
(* call that reaches the device is logged in `calls`, may raise a          *)
(* transport error, and the device answers nondeterministically where the  *)
(* firmware decides the answer.                                            *)
(***************************************************************************)
EXTENDS Integers, Sequences, FiniteSets, TLC

VARIABLES
    prog,            \* which tool runs: "axcfg", "axfw" or "axrpt"
    pc,              \* position of the running function
    outcome,         \* how the run ended: [kind, code, exc]
    calls,           \* log of the library calls that reach the device
    \* ---- axcfg.py
    config_file,     \* bytes of the .th2cfgbin file
    given,           \* history only: the records the file was built from and
                     \* the customer data the device held before the load
    overwrite_u04,   \* the --load-u04 argument
    devU33,          \* u33 (CRC data) as the device reports it
    devUsages,       \* config usages held by the device: usage -> content
    u33,             \* axcfg local: u33 read from the device
    extracted,       \* axcfg local: result of extract_usages_from_config_file
    u33_from_file,   \* axcfg local: u33 content taken from the file
    u04,             \* axcfg local: cached customer data
    idx,             \* axcfg local: position of the write loop in usages
    bytes_written,   \* axcfg local: progress numerator
    \* ---- axfw.py
    firmware_file,   \* bytes of the .axfw / .alc file
    file_type,       \* "axfw", "alc" or "other", after the file name
    force_download,  \* the -force argument
    print_info,      \* the -info argument
    device_info,     \* u31 (device information) bytes of the device
    u31_device_information,  \* __main__ global: <<>> while unassigned
    file_pos,        \* file.tell() of the download loop
    devMode,         \* "normal" or "bootloader"
    \* ---- axrpt.py
    gpioint,         \* args.gpioint is not None
    enabled,         \* args.reports: the usages given with --reports
    reports,         \* AxiomReportLoggingFilter.reports: usage -> enabled
    keyboard_signal_interrupt_requested,   \* the flag the SIGINT handler sets
    event_detect,    \* GPIO.add_event_detect is in force
    irq_pc,          \* the callback thread of the GPIO library
    edges,           \* falling edges seen on the interrupt pin so far
    report,          \* the frame last handed to decode_and_process_report
    report_log,      \* the records handed to report_logger.info so far
    messages         \* the lines printed about the state of the device

cfgVars == <<config_file, given, overwrite_u04, devU33, devUsages, u33,
             extracted, u33_from_file, u04, idx, bytes_written>>
fwVars == <<firmware_file, file_type, force_download, print_info, device_info,
            u31_device_information, file_pos, devMode>>
rptVars == <<gpioint, enabled, reports, keyboard_signal_interrupt_requested,
             event_detect, irq_pc, edges, report, report_log, messages>>
vars == <<prog, pc, outcome, calls, cfgVars, fwVars, rptVars>>

----------------------------------------------------------------------------
(* Bounds of the model *)

MaxRecords == 3      \* records per generated config file
MaxCut == 2          \* bytes cut from the end of a generated file
MaxChunks == 2       \* chunks per generated firmware body
MaxReads == 2        \* reads of the report FIFO in one run

----------------------------------------------------------------------------
(* Sequence helpers *)

RECURSIVE Flatten(_)
Flatten(ss) == IF ss = <<>> THEN <<>> ELSE Head(ss) \o Flatten(Tail(ss))

RECURSIVE SumLen(_)
SumLen(ss) == IF ss = <<>> THEN 0 ELSE Len(Head(ss)) + SumLen(Tail(ss))

SeqsUpTo(S, n) == UNION { [1..k -> S] : k \in 0..n }

\* file.read(n) at offset pos (0-based): at most n bytes, fewer at end of file
FileRead(f, pos, n) ==
    IF pos >= Len(f) THEN <<>>
    ELSE SubSeq(f, pos + 1, IF pos + n > Len(f) THEN Len(f) ELSE pos + n)

----------------------------------------------------------------------------
(* Outcomes of a run *)

NoOutcome == [kind |-> "running", code |-> 0, exc |-> "none"]
Return(code) == [kind |-> "return", code |-> code, exc |-> "none"]
\* an exception nobody catches ends the interpreter with status 1
Raise(exc) == [kind |-> "raise", code |-> 1, exc |-> exc]
\* sys.exit(code)
Exit(code) == [kind |-> "exit", code |-> code, exc |-> "none"]

----------------------------------------------------------------------------
(* axcfg.py: the .th2cfgbin container *)

U04 == 4
U31 == 49
U33 == 51
CFG_SIGNATURE == 537336169      \* 0x20071969
CFG_HEADER_LEN == 13
CFG_RECORD_OVERHEAD == 5

\* struct.unpack(">I", b)
UnpackBE32(b) == ((b[1] * 256 + b[2]) * 256 + b[3]) * 256 + b[4]
\* struct.unpack("<H", b)
UnpackLE16(b) == b[1] + 256 * b[2]

\* Mutant: a list of entries, one per record.
DictSetAppends(d, entry) == Append(d, entry)

\* usages[usage] = value on an insertion-ordered dict, kept as a sequence of
\* (usage, revision, content) entries: a known key keeps its place
DictSet(d, entry) ==
    IF \E i \in 1..Len(d) : d[i][1] = entry[1]
    THEN [i \in 1..Len(d) |-> IF d[i][1] = entry[1] THEN entry ELSE d[i]]
    ELSE Append(d, entry)

DictHas(d, usage) == \E i \in 1..Len(d) : d[i][1] = usage
DictGet(d, usage) == d[CHOOSE i \in 1..Len(d) : d[i][1] = usage]

\* Mutant: the short read ends the loop and the entries read so far are kept.
ShortReadKeepsEntries(usages) == [raised |-> FALSE, usages |-> usages]

\* The result of one pass of the decoding loop on a short read: struct.unpack
\* raises struct.error, which neither except clause catches.
ShortRead(usages) == [raised |-> TRUE, usages |-> <<>>]

\* while True: read a 5-byte record header and `length` bytes of content,
\* store the entry, stop when file.tell() equals the file size
RECURSIVE DecodeRecords(_, _, _)
DecodeRecords(f, pos, usages) ==
    LET hdr == FileRead(f, pos, CFG_RECORD_OVERHEAD) IN
    IF Len(hdr) < CFG_RECORD_OVERHEAD THEN ShortRead(usages)
    ELSE
      LET usage == hdr[1]
          revision == hdr[2]
          length == UnpackLE16(<<hdr[4], hdr[5]>>)
          content == FileRead(f, pos + CFG_RECORD_OVERHEAD, length)
          tell == pos + CFG_RECORD_OVERHEAD + Len(content)
      IN  IF Len(content) < length THEN ShortRead(usages)
          ELSE LET stored == DictSet(usages, <<usage, revision, content>>) IN
               IF tell = Len(f) THEN [raised |-> FALSE, usages |-> stored]
               ELSE DecodeRecords(f, tell, stored)

\* signature == 0x20071969
SignatureOk(signature) == signature = CFG_SIGNATURE

extract_usages_from_config_file(f) ==
    LET sig == FileRead(f, 0, 4) IN
    IF Len(sig) < 4 THEN [raised |-> TRUE, size |-> Len(f), usages |-> <<>>]
    ELSE IF SignatureOk(UnpackBE32(sig))
    THEN LET r == DecodeRecords(f, CFG_HEADER_LEN, <<>>) IN
         [raised |-> r.raised,
          size |-> Len(f) - (CFG_HEADER_LEN + Len(r.usages) * CFG_RECORD_OVERHEAD),
          usages |-> r.usages]
    ELSE [raised |-> FALSE, size |-> Len(f) - CFG_HEADER_LEN, usages |-> <<>>]

----------------------------------------------------------------------------
(* The config files the model loads *)

OtherUsages == {64}
UsageIds == {U04, U31, U33} \cup OtherUsages
CrcValues == {1, 2}

\* u33 content as the library unpacks it: the runtime (firmware) CRC first,
\* the config CRC after it
U33Contents == { <<r, c>> : r \in CrcValues, c \in CrcValues }

\* u31 content (device information) of the device
DeviceU31 == <<5>>

ContentsOf(usage) ==
    IF usage = U33 THEN { <<1, 1>>, <<2, 1>>, <<1>> }
    ELSE IF usage = U04 THEN { <<9>> }
    ELSE IF usage = U31 THEN { DeviceU31, <<>> }
    ELSE { <<>> }

\* a later revision of a usage, with another payload
RevisedRecords == { <<64, 2, <<3>>>> }

Records ==
    UNION { { <<usage, 1, content>> : content \in ContentsOf(usage) } : usage \in UsageIds }
        \cup RevisedRecords

GoodMagic == <<32, 7, 25, 105>>
BadMagics == { <<105, 25, 7, 32>>, <<32, 7, 25, 104>> }

EncodeRecord(rec) ==
    <<rec[1], rec[2], 0, Len(rec[3]) % 256, Len(rec[3]) \div 256>> \o rec[3]

EncodeFile(magic, recs) ==
    magic \o [i \in 1..(CFG_HEADER_LEN - 4) |-> 0]
          \o Flatten([i \in 1..Len(recs) |-> EncodeRecord(recs[i])])

CutEnd(f, n) == SubSeq(f, 1, Len(f) - n)

\* complete files, files cut short, files with a foreign signature, and
\* files too short to hold a signature
ConfigFiles ==
    { [bytes |-> CutEnd(EncodeFile(GoodMagic, recs), cut), recs |-> recs] :
          recs \in SeqsUpTo(Records, MaxRecords), cut \in 0..MaxCut }
    \cup { [bytes |-> EncodeFile(magic, recs), recs |-> recs] :
          recs \in SeqsUpTo(Records, MaxRecords - 1), magic \in BadMagics }
    \cup { [bytes |-> SubSeq(GoodMagic, 1, n), recs |-> <<>>] : n \in 0..3 }

----------------------------------------------------------------------------
(* The device and the library calls that reach it *)

FillContent == <<0>>
CustomerData == { <<7>>, <<9>> }

Call(op, cmd, usage, data, ok) ==
    [op |-> op, cmd |-> cmd, usage |-> usage, data |-> data, ok |-> ok]

WriteOps == {"write_usage", "config_write_usage_to_device"}
IsWrite(c) == c.op \in WriteOps
IsCommand(c) == c.op = "send_command"

\* u33_CRCData.reg_runtime_crc
RuntimeCrc(content) == content[1]

\* u33_CRCData._unpack, u31_DeviceInformation._unpack: the content must
\* have the length of the usage
Unpackable(content, devContent) == Len(content) = Len(devContent)

\* u33_CRCData.compare_u33: every CRC of the two usages agrees
compare_u33(a, b) == a = b

----------------------------------------------------------------------------
(* axcfg.py: axcfg(ax, config_file, overwrite_u04) *)

\* Mutant: the compatibility check lets every file through.
NeverIncompatible(fileU33, deviceU33) == FALSE

\* if u33_from_file.reg_runtime_crc != u33.reg_runtime_crc: return 3
Incompatible(fileU33, deviceU33) == RuntimeCrc(fileU33) # RuntimeCrc(deviceU33)

\* Mutant: the customer data of the file is written like any other usage.
WritesEveryUsage(usage, overwrite) == TRUE

\* if usage != 0x04 or (usage == 0x04 and overwrite_u04)
WritesUsage(usage, overwrite) == usage # U04 \/ (usage = U04 /\ overwrite)

\* Mutant: the cached customer data is not what is written back.
RestoredU04Lost(cached) == FillContent

\* ax.write_usage(0x04, u04): the content written back after the fill
RestoredU04(cached) == cached

\* Mutant: a failed verification is only printed.
VerifyCodeIgnored(loaded) == 0

\* Mutant: the test of the verification is inverted.
VerifyCodeInverted(loaded) == IF loaded THEN 4 ELSE 0

\* return 4 if not config_loaded_successfully, else 0
VerifyCode(loaded) == IF ~loaded THEN 4 ELSE 0

\* Mutant: the config is saved before it is written.
StepAfterSaveFirst(step) ==
    CASE step = "stop" -> "read_u04"
      [] step = "read_u04" -> "fill"
      [] step = "fill" -> "restore_u04"
      [] step = "restore_u04" -> "save"
      [] step = "save" -> "write"
      [] step = "write" -> "reset"
      [] step = "reset" -> "verify"
      [] step = "verify" -> "done"

\* The order of the statements of axcfg after the compatibility check.
StepAfter(step) ==
    CASE step = "stop" -> "read_u04"
      [] step = "read_u04" -> "fill"
      [] step = "fill" -> "restore_u04"
      [] step = "restore_u04" -> "write"
      [] step = "write" -> "save"
      [] step = "save" -> "reset"
      [] step = "reset" -> "verify"
      [] step = "verify" -> "done"

Usages == extracted.usages

\* the library call the function is about to make at pc
PendingCall(ok) ==
    CASE pc = "axcfg" -> Call("read_usage", "", U33, <<>>, ok)
      [] pc = "stop" -> Call("send_command", "CMD_STOP", 0, <<>>, ok)
      [] pc = "read_u04" -> Call("read_usage", "", U04, <<>>, ok)
      [] pc = "fill" -> Call("send_command", "CMD_FILL_CONFIG", 0, <<>>, ok)
      [] pc = "restore_u04" -> Call("write_usage", "", U04, RestoredU04(u04), ok)
      [] pc = "write" ->
             Call("config_write_usage_to_device", "", Usages[idx][1], Usages[idx][3], ok)
      [] pc = "save" -> Call("send_command", "CMD_SAVE_CONFIG", 0, <<>>, ok)
      [] pc = "reset" -> Call("send_command", "CMD_SOFT_RESET", 0, <<>>, ok)
      [] pc = "verify" -> Call("read_usage", "", U33, <<>>, ok)

Finish(o) == pc' = "done" /\ outcome' = o

\* lines 67-98: read u33, decode the file, check the compatibility
AxcfgValidate ==
    /\ prog = "axcfg" /\ pc = "axcfg"
    /\ calls' = Append(calls, PendingCall(TRUE))
    /\ u33' = devU33
    /\ LET x == extract_usages_from_config_file(config_file) IN
       /\ extracted' = x
       /\ IF x.raised THEN
              /\ Finish(Raise("struct.error"))
              /\ UNCHANGED u33_from_file
          ELSE IF ~DictHas(x.usages, U33) THEN
              /\ Finish(Raise("KeyError"))
              /\ UNCHANGED u33_from_file
          ELSE IF ~Unpackable(DictGet(x.usages, U33)[3], devU33) THEN
              /\ Finish(Raise("struct.error"))
              /\ UNCHANGED u33_from_file
          ELSE
              /\ u33_from_file' = DictGet(x.usages, U33)[3]
              /\ IF ~DictHas(x.usages, U31) THEN Finish(Raise("KeyError"))
                 ELSE IF ~Unpackable(DictGet(x.usages, U31)[3], DeviceU31)
                 THEN Finish(Raise("struct.error"))
                 ELSE IF Incompatible(u33_from_file', devU33) THEN Finish(Return(3))
                 ELSE pc' = "stop" /\ UNCHANGED outcome
    /\ UNCHANGED <<rptVars, fwVars, prog, config_file, given, overwrite_u04, devU33, devUsages,
                   u04, idx, bytes_written>>

\* ax.u02.send_command(CMD_STOP / CMD_FILL_CONFIG / CMD_SAVE_CONFIG)
AxcfgCommand ==
    /\ prog = "axcfg" /\ pc \in {"stop", "fill", "save"}
    /\ calls' = Append(calls, PendingCall(TRUE))
    /\ devUsages' = IF pc = "fill" THEN [u \in DOMAIN devUsages |-> FillContent]
                    ELSE devUsages
    /\ pc' = StepAfter(pc)
    /\ UNCHANGED <<rptVars, fwVars, prog, outcome, config_file, given, overwrite_u04, devU33, u33,
                   extracted, u33_from_file, u04, idx, bytes_written>>

\* u04 = ax.read_usage(0x04)
AxcfgReadU04 ==
    /\ prog = "axcfg" /\ pc = "read_u04"
    /\ calls' = Append(calls, PendingCall(TRUE))
    /\ u04' = devUsages[U04]
    /\ pc' = StepAfter(pc)
    /\ UNCHANGED <<rptVars, fwVars, prog, outcome, config_file, given, overwrite_u04, devU33,
                   devUsages, u33, extracted, u33_from_file, idx, bytes_written>>

\* ax.write_usage(0x04, u04), then bytes_written = 0 and the loop starts
AxcfgRestoreU04 ==
    /\ prog = "axcfg" /\ pc = "restore_u04"
    /\ calls' = Append(calls, PendingCall(TRUE))
    /\ devUsages' = [devUsages EXCEPT ![U04] = RestoredU04(u04)]
    /\ idx' = 1
    /\ bytes_written' = 0
    /\ pc' = StepAfter(pc)
    /\ UNCHANGED <<rptVars, fwVars, prog, outcome, config_file, given, overwrite_u04, devU33, u33,
                   extracted, u33_from_file, u04>>

\* one pass of `for usage in usages`
AxcfgWriteUsage ==
    /\ prog = "axcfg" /\ pc = "write" /\ idx <= Len(Usages)
    /\ LET usage == Usages[idx][1]
           usage_content == Usages[idx][3]
       IN /\ IF WritesUsage(usage, overwrite_u04)
             THEN /\ calls' = Append(calls, PendingCall(TRUE))
                  /\ devUsages' = IF usage \in DOMAIN devUsages
                                  THEN [devUsages EXCEPT ![usage] = usage_content]
                                  ELSE devUsages
             ELSE UNCHANGED <<calls, devUsages>>
          /\ bytes_written' = bytes_written + Len(usage_content)
    /\ idx' = idx + 1
    /\ pc' = IF idx = Len(Usages) THEN StepAfter(pc) ELSE pc
    /\ UNCHANGED <<rptVars, fwVars, prog, outcome, config_file, given, overwrite_u04, devU33, u33,
                   extracted, u33_from_file, u04>>

\* ax.u02.send_command(CMD_SOFT_RESET): the firmware restarts and recomputes
\* the CRC of the config it now holds
AxcfgReset ==
    /\ prog = "axcfg" /\ pc = "reset"
    /\ calls' = Append(calls, PendingCall(TRUE))
    /\ \E c \in CrcValues : devU33' = <<RuntimeCrc(devU33), c>>
    /\ pc' = StepAfter(pc)
    /\ UNCHANGED <<rptVars, fwVars, prog, outcome, config_file, given, overwrite_u04, devUsages, u33,
                   extracted, u33_from_file, u04, idx, bytes_written>>

\* lines 139-145: re-read u33 and compare it with the file's
AxcfgVerify ==
    /\ prog = "axcfg" /\ pc = "verify"
    /\ calls' = Append(calls, PendingCall(TRUE))
    /\ u33' = devU33
    /\ Finish(Return(VerifyCode(compare_u33(u33', u33_from_file))))
    /\ UNCHANGED <<rptVars, fwVars, prog, config_file, given, overwrite_u04, devU33, devUsages,
                   extracted, u33_from_file, u04, idx, bytes_written>>

\* a library call raises: nothing in axcfg catches it
AxcfgTransportError ==
    /\ prog = "axcfg"
    /\ pc \in {"axcfg", "stop", "read_u04", "fill", "restore_u04", "save", "reset", "verify"}
       \/ (pc = "write" /\ idx <= Len(Usages) /\ WritesUsage(Usages[idx][1], overwrite_u04))
    /\ calls' = Append(calls, PendingCall(FALSE))
    /\ Finish(Raise("TransportError"))
    /\ UNCHANGED <<rptVars, fwVars, prog, cfgVars>>

\* Mutant: the full comparison of u33 is not made.
CompareCodeRuntimeOnly(fileU33, deviceU33) ==
    IF Incompatible(fileU33, deviceU33) THEN 3 ELSE 0

\* axcfg_compare_u33, lines 175-190: return 3 when the runtime CRCs differ,
\* 4 when u33.compare_u33(u33_from_file, True) fails, else 0
CompareCode(fileU33, deviceU33) ==
    IF Incompatible(fileU33, deviceU33) THEN 3
    ELSE VerifyCode(compare_u33(deviceU33, fileU33))

\* axcfg_compare_u33(ax, config_file): u33 is read from the device, the file
\* is decoded, its 0x33 and 0x31 entries are unpacked and u33 is compared
AxcfgCompareU33 ==
    /\ prog = "axcfg_compare_u33" /\ pc = "axcfg_compare_u33"
    /\ calls' = Append(calls, Call("read_usage", "", U33, <<>>, TRUE))
    /\ u33' = devU33
    /\ LET x == extract_usages_from_config_file(config_file) IN
       /\ extracted' = x
       /\ IF x.raised THEN
              /\ Finish(Raise("struct.error"))
              /\ UNCHANGED u33_from_file
          ELSE IF ~DictHas(x.usages, U33) THEN
              /\ Finish(Raise("KeyError"))
              /\ UNCHANGED u33_from_file
          ELSE IF ~Unpackable(DictGet(x.usages, U33)[3], devU33) THEN
              /\ Finish(Raise("struct.error"))
              /\ UNCHANGED u33_from_file
          ELSE
              /\ u33_from_file' = DictGet(x.usages, U33)[3]
              /\ IF ~DictHas(x.usages, U31) THEN Finish(Raise("KeyError"))
                 ELSE IF ~Unpackable(DictGet(x.usages, U31)[3], DeviceU31)
                 THEN Finish(Raise("struct.error"))
                 ELSE Finish(Return(CompareCode(u33_from_file', u33')))
    /\ UNCHANGED <<rptVars, fwVars, prog, config_file, given, overwrite_u04, devU33, devUsages,
                   u04, idx, bytes_written>>

\* axcfg_compare_u33: the read of u33 raises
AxcfgCompareTransportError ==
    /\ prog = "axcfg_compare_u33" /\ pc = "axcfg_compare_u33"
    /\ calls' = Append(calls, Call("read_usage", "", U33, <<>>, FALSE))
    /\ Finish(Raise("TransportError"))
    /\ UNCHANGED <<rptVars, fwVars, prog, cfgVars>>

InitCfg ==
    /\ prog = "axcfg" /\ pc = "axcfg"
    /\ outcome = NoOutcome
    /\ calls = <<>>
    /\ \E f \in ConfigFiles, d \in CustomerData :
          /\ config_file = f.bytes
          /\ given = [recs |-> f.recs, devU04 |-> d]
          /\ devUsages = [u \in UsageIds |-> IF u = U04 THEN d ELSE FillContent]
    /\ overwrite_u04 \in BOOLEAN
    /\ devU33 \in { <<r, 1>> : r \in CrcValues }
    /\ u33 = <<>>
    /\ extracted = [raised |-> FALSE, size |-> 0, usages |-> <<>>]
    /\ u33_from_file = <<>>
    /\ u04 = <<>>
    /\ idx = 0
    /\ bytes_written = 0
    /\ firmware_file = <<>> /\ file_type = "other"
    /\ force_download = FALSE /\ print_info = FALSE
    /\ device_info = <<>> /\ u31_device_information = <<>>
    /\ file_pos = 0 /\ devMode = "normal"
    /\ gpioint = FALSE /\ enabled = <<>> /\ reports = <<>>
    /\ keyboard_signal_interrupt_requested = FALSE
    /\ event_detect = FALSE /\ irq_pc = "idle" /\ edges = 0
    /\ report = <<>> /\ report_log = <<>> /\ messages = <<>>

NextCfg ==
    \/ AxcfgValidate
    \/ AxcfgCommand
    \/ AxcfgReadU04
    \/ AxcfgRestoreU04
    \/ AxcfgWriteUsage
    \/ AxcfgReset
    \/ AxcfgVerify
    \/ AxcfgTransportError

SpecCfg == InitCfg /\ [][NextCfg]_vars

\* the check option: the same files, and a device whose u33 may differ from
\* the file's in the runtime CRC or in the config CRC
InitCmp ==
    /\ prog = "axcfg_compare_u33" /\ pc = "axcfg_compare_u33"
    /\ outcome = NoOutcome
    /\ calls = <<>>
    /\ \E f \in ConfigFiles :
          /\ config_file = f.bytes
          /\ given = [recs |-> f.recs, devU04 |-> <<7>>]
    /\ devUsages = [u \in UsageIds |-> IF u = U04 THEN <<7>> ELSE FillContent]
    /\ overwrite_u04 = FALSE
    /\ devU33 \in U33Contents
    /\ u33 = <<>>
    /\ extracted = [raised |-> FALSE, size |-> 0, usages |-> <<>>]
    /\ u33_from_file = <<>>
    /\ u04 = <<>>
    /\ idx = 0
    /\ bytes_written = 0
    /\ firmware_file = <<>> /\ file_type = "other"
    /\ force_download = FALSE /\ print_info = FALSE
    /\ device_info = <<>> /\ u31_device_information = <<>>
    /\ file_pos = 0 /\ devMode = "normal"
    /\ gpioint = FALSE /\ enabled = <<>> /\ reports = <<>>
    /\ keyboard_signal_interrupt_requested = FALSE
    /\ event_detect = FALSE /\ irq_pc = "idle" /\ edges = 0
    /\ report = <<>> /\ report_log = <<>> /\ messages = <<>>

NextCmp ==
    \/ AxcfgCompareU33
    \/ AxcfgCompareTransportError

SpecCmp == InitCmp /\ [][NextCmp]_vars


----------------------------------------------------------------------------
(* axfw.py: the .axfw header and binascii.crc32 *)

STATUS_SUCCESS == 0
INVALID_PARAMETER == -1
AXFW_HEADER_LEN == 24
CHUNK_HEADER_LEN == 8

\* axfw_header[k], k counted from 0
H(h, k) == h[k + 1]

\* A 32-bit word is kept as <<high half, low half>>, each 16 bits wide.
CRC32_POLY_HI == 60856      \* 0xEDB8
CRC32_POLY_LO == 33568      \* 0x8320
HALF_MASK == 65535          \* 0xFFFF

RECURSIVE Xor(_, _)
Xor(a, b) ==
    IF a = 0 THEN b
    ELSE IF b = 0 THEN a
    ELSE ((a + b) % 2) + 2 * Xor(a \div 2, b \div 2)

\* crc = (crc >> 1) ^ 0xEDB88320 if crc & 1 else crc >> 1
CrcShift(c) ==
    LET hi == c[1] \div 2
        lo == (c[2] \div 2) + (c[1] % 2) * 32768
    IN  IF c[2] % 2 = 1
        THEN <<Xor(hi, CRC32_POLY_HI), Xor(lo, CRC32_POLY_LO)>>
        ELSE <<hi, lo>>

\* (the test on the shifted word makes TLC compute it before the next pass)
RECURSIVE CrcShifts(_, _)
CrcShifts(c, n) ==
    IF n = 0 THEN c
    ELSE LET s == CrcShift(c) IN
         IF s[1] >= 0 THEN CrcShifts(s, n - 1) ELSE s

\* the table of the byte-wise CRC-32: entry b is b shifted out eight times
CrcTable == [b \in 0..255 |-> CrcShifts(<<0, b>>, 8)]

\* the exclusive or of two bytes, tabulated, and of two 16-bit halves
XorTable == [a \in 0..255 |-> [b \in 0..255 |-> Xor(a, b)]]
XorHalf(a, b) == XorTable[a \div 256][b \div 256] * 256 + XorTable[a % 256][b % 256]

\* crc = table[(crc ^ b) & 0xFF] ^ (crc >> 8)
CrcByte(c, b) ==
    LET t == CrcTable[XorTable[c[2] % 256][b]] IN
    <<XorHalf(t[1], c[1] \div 256), XorHalf(t[2], (c[2] \div 256) + (c[1] % 256) * 256)>>

RECURSIVE CrcBytes(_, _, _)
CrcBytes(c, data, k) ==
    IF k > Len(data) THEN c
    ELSE LET s == CrcByte(c, data[k]) IN
         IF s[1] >= 0 THEN CrcBytes(s, data, k + 1) ELSE s

\* binascii.crc32(data, 0), as the four bytes of its little-endian form
crc32(data) ==
    LET c == CrcBytes(<<HALF_MASK, HALF_MASK>>, data, 1)
        hi == HALF_MASK - c[1]
        lo == HALF_MASK - c[2]
    IN  <<lo % 256, lo \div 256, hi % 256, hi \div 256>>

AXFW_SIGNATURE == <<65, 88, 70, 87>>     \* "AXFW"

\* if signature != "AXFW"
SignatureBad(h) == SubSeq(h, 1, 4) # AXFW_SIGNATURE

\* if (file_format_version_minor != 0) and (file_format_version_major != 2)
VersionUnsupported(h) == H(h, 8) # 0 /\ H(h, 9) # 2

\* new_device_id = axfw_header[10] + axfw_header[11]
NewDeviceId(h) == H(h, 10) + H(h, 11)

\* original_device_channel_count:
\* (((device_info[1] & 0x7f) << 8) + device_info[0]) & 0x3FF
ChannelCount(info) == ((H(info, 1) % 128) * 256 + H(info, 0)) % 1024

\* Mutant: the CRC-32 of the file is not compared with its CRC field.
CrcNeverBad(f) == FALSE

\* if axfw_crc != calculated_axfw_crc, both taken as little-endian bytes
CrcBad(f) == SubSeq(f, 5, 8) # crc32(SubSeq(f, 9, Len(f)))

\* if original_device_channel_count != new_device_id
DeviceIdMismatch(info, h) == ChannelCount(info) # NewDeviceId(h)

\* the firmware version of the file is the one on the device
AlreadyOnDevice(info, h) ==
    /\ H(h, 14) = H(info, 3)
    /\ H(h, 13) = H(info, 2)
    /\ H(h, 15) = H(info, 11) \div 16

\* the status axfw_check_file_and_validate_parameters returns for a file
\* that holds a whole header
axfw_check_file_and_validate_parameters(info, f, force) ==
    LET h == SubSeq(f, 1, AXFW_HEADER_LEN) IN
    IF \/ SignatureBad(h)
       \/ VersionUnsupported(h)
       \/ CrcBad(f)
       \/ (DeviceIdMismatch(info, h) /\ ~force)
       \/ (AlreadyOnDevice(info, h) /\ ~force)
    THEN INVALID_PARAMETER
    ELSE STATUS_SUCCESS

----------------------------------------------------------------------------
(* The firmware files the model downloads *)

\* a chunk: 8 header bytes, the last two the big-endian length of the payload
Chunks == { <<1, 0, 0, 0, 0, 0, 0, 0>>, <<2, 0, 0, 0, 0, 0, 0, 1, 170>> }
ChunkBodies ==
    { CutEnd(Flatten(cs), cut) : cs \in SeqsUpTo(Chunks, MaxChunks), cut \in 0..1 }

\* the device: 54 channels, firmware 4.8.0
DeviceInfos == { <<54, 0, 8, 4, 0, 0, 0, 0, 0, 0, 0, 0>> }
EmbeddedCrc == <<1, 0, 0, 0>>

\* header bytes 8..23: format version (minor, major), device ID, variant,
\* firmware version (minor, major, patch), silicon, embedded runtime CRC
HeaderFields ==
    { <<fmt[1], fmt[2], id, 0, variant, ver[1], ver[2], ver[3], 0, 0, 0, 0>> \o EmbeddedCrc :
        fmt \in { <<0, 2>>, <<1, 2>>, <<0, 3>>, <<1, 3>> },
        id \in {54, 80},
        variant \in {0, 1},
        ver \in { <<8, 4, 0>>, <<9, 4, 0>> } }

WrongCrc(crc) == <<(crc[1] + 1) % 256, crc[2], crc[3], crc[4]>>

\* a file with its CRC-32 field computed over the bytes from offset 8
Sealed(sig, fields, body) == sig \o crc32(fields \o body) \o fields \o body

\* the file with the byte at offset k changed
MutateByte(f, k) == [i \in 1..Len(f) |-> IF i = k + 1 THEN (f[i] + 1) % 256 ELSE f[i]]

\* a valid file for a newer firmware, and the same with one byte changed
\* at an offset from 8 on
UpdateFile ==
    Sealed(AXFW_SIGNATURE,
           <<0, 2, 54, 0, 0, 9, 4, 0, 0, 0, 0, 0>> \o EmbeddedCrc,
           Flatten(<<<<2, 0, 0, 0, 0, 0, 0, 1, 170>>, <<1, 0, 0, 0, 0, 0, 0, 0>>>>))
MutatedFiles == { MutateByte(UpdateFile, k) : k \in 8..(Len(UpdateFile) - 1) }

\* a valid file for a newer firmware whose device ID field holds 53 in its
\* low byte and 1 in its high byte
WideIdFile ==
    Sealed(AXFW_SIGNATURE,
           <<0, 2, 53, 1, 0, 9, 4, 0, 0, 0, 0, 0>> \o EmbeddedCrc,
           <<1, 0, 0, 0, 0, 0, 0, 0>>)

AxfwFiles ==
    { sig \o (IF crcOk THEN crc32(fields \o body) ELSE WrongCrc(crc32(fields \o body)))
          \o fields \o body :
        sig \in { AXFW_SIGNATURE, <<65, 88, 70, 88>> },
        crcOk \in BOOLEAN,
        fields \in HeaderFields,
        body \in ChunkBodies }
    \cup MutatedFiles
    \cup { WideIdFile }
    \cup { SubSeq(AXFW_SIGNATURE, 1, 3) }

----------------------------------------------------------------------------
(* axfw.py: __main__ *)

FwCall(op, data, ok) == Call(op, "", 0, data, ok)

FwDone(o) == pc' = "done" /\ outcome' = o

\* lines 267-285: the file type, the connection, the -info report
FwMain ==
    /\ prog = "axfw" /\ pc = "main"
    /\ IF file_type = "other" THEN
           FwDone(Exit(-1)) /\ UNCHANGED calls
       ELSE IF print_info /\ file_type = "axfw" THEN
           /\ calls' = Append(calls, FwCall("print_device_info", <<>>, TRUE))
           /\ IF Len(firmware_file) < AXFW_HEADER_LEN
              THEN FwDone(Raise("struct.error"))
              ELSE FwDone(Exit(STATUS_SUCCESS))
       ELSE pc' = "device_info" /\ UNCHANGED <<outcome, calls>>
    /\ UNCHANGED <<rptVars, prog, cfgVars, fwVars>>

\* lines 287-292: try: read the device information; except: a warning
FwDeviceInfo ==
    /\ prog = "axfw" /\ pc = "device_info"
    /\ \E responds \in BOOLEAN :
         /\ calls' = Append(calls, FwCall("get_u31_device_info", <<>>, responds))
         /\ u31_device_information' = IF responds THEN device_info ELSE <<>>
    /\ pc' = "enter_bootloader"
    /\ UNCHANGED <<rptVars, prog, outcome, cfgVars, firmware_file, file_type, force_download,
                   print_info, device_info, file_pos, devMode>>

\* Mutant: the status of enter_bootloader_mode is not looked at.
EnterFailedIgnored(status) == FALSE

\* if status == False: sys.exit(-1)
EnterFailed(status) == status = FALSE

\* Mutant: axfw_download starts at the top of the file, like alc_download.
DownloadStartAtTop(type) == 0

\* file.seek(24) in axfw_download, file.seek(0) in alc_download
DownloadStart(type) == IF type = "axfw" THEN AXFW_HEADER_LEN ELSE 0

\* the status enter_bootloader_mode returned, as logged with the call
StatusByte(status) == IF status THEN <<1>> ELSE <<0>>

\* lines 294-299: status = axiom.enter_bootloader_mode(); the library returns
\* True when it saw the device in bootloader mode
FwEnterBootloader ==
    /\ prog = "axfw" /\ pc = "enter_bootloader"
    /\ \E status \in BOOLEAN :
         /\ calls' = Append(calls, FwCall("enter_bootloader_mode", StatusByte(status), TRUE))
         /\ devMode' = IF status THEN "bootloader" ELSE devMode
         /\ IF EnterFailed(status)
            THEN FwDone(Exit(-1)) /\ UNCHANGED file_pos
            ELSE /\ pc' = IF file_type = "axfw" THEN "validate" ELSE "download"
                 /\ file_pos' = IF file_type = "axfw" THEN file_pos
                                 ELSE DownloadStart(file_type)
                 /\ UNCHANGED outcome
    /\ UNCHANGED <<rptVars, prog, cfgVars, firmware_file, file_type, force_download,
                   print_info, device_info, u31_device_information>>

\* lines 302-305: file_valid = axfw_check_file_and_validate_parameters(...)
FwValidate ==
    /\ prog = "axfw" /\ pc = "validate"
    /\ IF u31_device_information = <<>> THEN
           FwDone(Raise("NameError")) /\ UNCHANGED file_pos
       ELSE IF Len(firmware_file) < AXFW_HEADER_LEN THEN
           FwDone(Raise("struct.error")) /\ UNCHANGED file_pos
       ELSE IF axfw_check_file_and_validate_parameters(
                   u31_device_information, firmware_file, force_download) = STATUS_SUCCESS
       THEN pc' = "download" /\ file_pos' = DownloadStart(file_type) /\ UNCHANGED outcome
       ELSE pc' = "reset" /\ UNCHANGED <<outcome, file_pos>>
    /\ UNCHANGED <<rptVars, prog, calls, cfgVars, firmware_file, file_type, force_download,
                   print_info, device_info, u31_device_information, devMode>>

\* Mutant: a payload shorter than the declared length is passed on.
PayloadNeverShort(payload, length) == FALSE

\* struct.unpack(">" + str(chunk_length) + "B", file.read(chunk_length))
\* raises struct.error when the read returns fewer bytes
PayloadShort(payload, length) == Len(payload) < length

\* chunk_length = (chunk_header[6] << 8) + chunk_header[7]
ChunkLength(chunk_header) == H(chunk_header, 6) * 256 + H(chunk_header, 7)

\* lines 195-199: the header and the payload read at file offset pos
ReadChunk(f, pos) ==
    LET chunk_header == FileRead(f, pos, CHUNK_HEADER_LEN) IN
    IF Len(chunk_header) < CHUNK_HEADER_LEN
    THEN [raised |-> TRUE, header |-> chunk_header, payload |-> <<>>, tell |-> pos]
    ELSE LET chunk_length == ChunkLength(chunk_header)
             chunk_payload == FileRead(f, pos + CHUNK_HEADER_LEN, chunk_length)
         IN  [raised |-> PayloadShort(chunk_payload, chunk_length),
              header |-> chunk_header,
              payload |-> chunk_payload,
              tell |-> pos + CHUNK_HEADER_LEN + Len(chunk_payload)]

\* axiom.bootloader_write_chunk(chunk_header, chunk_payload)
WriteChunkCall(chunk, ok) ==
    FwCall("bootloader_write_chunk", <<chunk.header, chunk.payload>>, ok)

\* Mutant: the loop does not stop at the end of the file.
EndOfFileNever(tell, eof_pos) == FALSE

\* if file.tell() == eof_pos: break
EndOfFile(tell, eof_pos) == tell = eof_pos

\* one pass of the loop of axfw_download / alc_download
FwWriteChunk ==
    /\ prog = "axfw" /\ pc = "download"
    /\ LET chunk == ReadChunk(firmware_file, file_pos) IN
       IF chunk.raised THEN
           FwDone(Raise("struct.error")) /\ UNCHANGED <<calls, file_pos>>
       ELSE
           /\ calls' = Append(calls, WriteChunkCall(chunk, TRUE))
           /\ file_pos' = chunk.tell
           /\ pc' = IF EndOfFile(chunk.tell, Len(firmware_file)) THEN "reset" ELSE pc
           /\ UNCHANGED outcome
    /\ UNCHANGED <<rptVars, prog, cfgVars, firmware_file, file_type, force_download,
                   print_info, device_info, u31_device_information, devMode>>

\* lines 315-321: try: axiom.bootloader_reset_axiom(); except: pass.
\* The firmware that starts reports its own runtime CRC.
FwReset ==
    /\ prog = "axfw" /\ pc = "reset"
    /\ \E ok \in BOOLEAN :
         /\ calls' = Append(calls, FwCall("bootloader_reset_axiom", <<>>, ok))
         /\ devMode' = IF ok THEN "normal" ELSE devMode
    /\ devU33' \in U33Contents
    /\ pc' = "info_after"
    /\ UNCHANGED <<rptVars, prog, outcome, config_file, given, overwrite_u04, devUsages, u33,
                   extracted, u33_from_file, u04, idx, bytes_written,
                   firmware_file, file_type, force_download, print_info, device_info,
                   u31_device_information, file_pos>>

\* line 327: axiom.print_device_info()
FwInfoAfter ==
    /\ prog = "axfw" /\ pc = "info_after"
    /\ calls' = Append(calls, FwCall("print_device_info", <<>>, TRUE))
    /\ pc' = "validate_runtime_crc"
    /\ UNCHANGED <<rptVars, prog, outcome, cfgVars, fwVars>>

\* stored_nvm_crc: int.from_bytes(axfw_header[20..23], 'little')
stored_nvm_crc(h) ==
    H(h, 20) + 256 * (H(h, 21) + 256 * (H(h, 22) + 256 * H(h, 23)))

\* if runtime_nvm_crc != stored_nvm_crc: print("Runtime CRC do not match")
RuntimeCrcDiffers(u33content, h) == RuntimeCrc(u33content) # stored_nvm_crc(h)

\* exit_code = 0 at line 250 is the value sys.exit gets at line 332: the
\* result of the comparison is printed and assigned to nothing
ExitCode(crcDiffers) == 0

\* lines 328-332: validate_runtime_crc(axiom, firmware_file), which prints;
\* axiom.close(); sys.exit(exit_code). For an .alc file get_axfw_header
\* returns INVALID_PARAMETER as the header, and indexing it raises.
FwValidateRuntimeCrc ==
    /\ prog = "axfw" /\ pc = "validate_runtime_crc"
    /\ calls' = Append(calls, Call("read_usage", "", U33, <<>>, TRUE))
    /\ u33' = devU33
    /\ IF file_type # "axfw" THEN FwDone(Raise("TypeError"))
       ELSE FwDone(Exit(ExitCode(RuntimeCrcDiffers(u33', firmware_file))))
    /\ UNCHANGED <<rptVars, prog, config_file, given, overwrite_u04, devU33, devUsages,
                   extracted, u33_from_file, u04, idx, bytes_written, fwVars>>

\* a library call raises outside a try block
FwTransportError ==
    /\ prog = "axfw"
    /\ \/ pc = "enter_bootloader"
            /\ calls' = Append(calls, FwCall("enter_bootloader_mode", <<>>, FALSE))
       \/ pc = "download" /\ ~ReadChunk(firmware_file, file_pos).raised
            /\ calls' = Append(calls,
                   WriteChunkCall(ReadChunk(firmware_file, file_pos), FALSE))
       \/ pc = "info_after"
            /\ calls' = Append(calls, FwCall("print_device_info", <<>>, FALSE))
       \/ pc = "validate_runtime_crc"
            /\ calls' = Append(calls, Call("read_usage", "", U33, <<>>, FALSE))
    /\ FwDone(Raise("TransportError"))
    /\ UNCHANGED <<rptVars, prog, cfgVars, fwVars>>

InitFw ==
    /\ prog = "axfw" /\ pc = "main"
    /\ outcome = NoOutcome
    /\ calls = <<>>
    /\ \/ file_type = "axfw" /\ firmware_file \in AxfwFiles
       \/ file_type = "alc" /\ firmware_file \in ChunkBodies
       \/ file_type = "other" /\ firmware_file = <<>>
    /\ force_download \in BOOLEAN
    /\ print_info \in BOOLEAN
    /\ device_info \in DeviceInfos
    /\ u31_device_information = <<>>
    /\ file_pos = 0
    /\ devMode = "normal"
    /\ devU33 = <<1, 1>>
    /\ config_file = <<>> /\ given = [recs |-> <<>>, devU04 |-> <<>>]
    /\ overwrite_u04 = FALSE
    /\ devUsages = [u \in UsageIds |-> FillContent]
    /\ u33 = <<>>
    /\ extracted = [raised |-> FALSE, size |-> 0, usages |-> <<>>]
    /\ u33_from_file = <<>>
    /\ u04 = <<>>
    /\ idx = 0
    /\ bytes_written = 0
    /\ gpioint = FALSE /\ enabled = <<>> /\ reports = <<>>
    /\ keyboard_signal_interrupt_requested = FALSE
    /\ event_detect = FALSE /\ irq_pc = "idle" /\ edges = 0
    /\ report = <<>> /\ report_log = <<>> /\ messages = <<>>

NextFw ==
    \/ FwMain
    \/ FwDeviceInfo
    \/ FwEnterBootloader
    \/ FwValidate
    \/ FwWriteChunk
    \/ FwReset
    \/ FwInfoAfter
    \/ FwValidateRuntimeCrc
    \/ FwTransportError

SpecFw == InitFw /\ [][NextFw]_vars

\* the loop of axfw_download / alc_download is straight-line code: as long as
\* bootloader_write_chunk returns, the next pass is made
SpecFwLive == InitFw /\ [][NextFw]_vars /\ WF_vars(FwWriteChunk)

----------------------------------------------------------------------------
(* axrpt.py: the report decoders *)

U01 == 1
U34 == 52           \* 0x34, the report FIFO
U41 == 65           \* 0x41
U45 == 69           \* 0x45

\* report[k], k counted from 0
B(r, k) == r[k + 1]

\* Mutant: the two bytes are taken high byte first.
WordBigEndian(r, k) == 256 * B(r, k) + B(r, k + 1)

\* report[k] + (report[k + 1] << 8)
Word(r, k) == B(r, k) + 256 * B(r, k + 1)

\* report[2:]
Body(frame) == SubSeq(frame, 3, Len(frame))

\* the outcome of a decoder: it raised, or it handed the records (none or
\* one) to report_logger.info
Raised(exc) == [raised |-> TRUE, exc |-> exc, records |-> <<>>]
Logged(records) == [raised |-> FALSE, exc |-> "none", records |-> records]

\* report_logger.info(text, extra={'usage': usage}); the text is kept as the
\* values formatted into it
Record(usage, fields) == [usage |-> usage, fields |-> fields]

\* report_types, PossibleReasonsEffect: the lengths of the two lists
ReportTypes == 4
PossibleReasons == 7

\* decode_u01: the System manager report
decode_u01(r) ==
    IF Len(r) < 44 \/ B(r, 0) >= ReportTypes THEN Raised("IndexError")
    ELSE Logged(<<Record(U01, <<Word(r, 42), B(r, 0), Word(r, 2)>>)>>)

\* target_status & (1 << t) != 0
BitSet(mask, t) == (mask \div (2 ^ t)) % 2 = 1

\* for t in range(0, 10): the targets that report a position, as (t, x, y, z)
RECURSIVE Targets(_, _, _)
Targets(r, target_status, t) ==
    IF t = 10 THEN <<>>
    ELSE (IF BitSet(target_status, t)
          THEN << <<t, Word(r, 4 * t + 2), Word(r, 4 * t + 4), B(r, t + 42)>> >>
          ELSE <<>>) \o Targets(r, target_status, t + 1)

\* decode_u41: the 2DCTS report
decode_u41(r) ==
    IF Len(r) < 56 THEN Raised("IndexError")
    ELSE LET target_status == B(r, 0) + (B(r, 1) % 4) * 256
             extra_info == B(r, 1) \div 4
             timestamp == Word(r, 52)
         IN  IF target_status # 0 \/ extra_info # 0
             THEN Logged(<<Record(U41, <<timestamp, target_status, extra_info,
                                         Targets(r, target_status, 0)>>)>>)
             ELSE Logged(<<>>)

\* for CoM in range(4): the valid sub-reports, as
\* (hotspot index, CoM, qualification index, x, y, reason); a sub-report
\* whose reason is outside PossibleReasonsEffect raises
RECURSIVE CoMs(_, _)
CoMs(r, CoM) ==
    IF CoM = 4 THEN [raised |-> FALSE, valid |-> <<>>]
    ELSE LET offset == 8 * CoM
             rest == CoMs(r, CoM + 1)
         IN  IF B(r, offset + 1) # 1 THEN rest
             ELSE IF B(r, offset + 3) >= PossibleReasons
                  THEN [raised |-> TRUE, valid |-> <<>>]
             ELSE IF rest.raised THEN rest
             ELSE [raised |-> FALSE,
                   valid |-> << <<B(r, offset), CoM, B(r, offset + 2),
                                  Word(r, offset + 4), Word(r, offset + 6),
                                  B(r, offset + 3)>> >> \o rest.valid]

\* decode_u45: the Hotspots report (ForceOnly = True)
decode_u45(r) ==
    IF Len(r) < 34 THEN Raised("IndexError")
    ELSE LET c == CoMs(r, 0) IN
         IF c.raised THEN Raised("IndexError")
         ELSE IF c.valid # <<>>
         THEN Logged(<<Record(U45, <<Word(r, 32), c.valid>>)>>)
         ELSE Logged(<<>>)

\* Mutant: a frame of an unknown usage is decoded as a u01 report.
DecoderForAnyUsage(usage) ==
    IF usage = U41 THEN "u41" ELSE IF usage = U45 THEN "u45" ELSE "u01"

\* the if / elif chain of decode_and_process_report: it has no else
DecoderFor(usage) ==
    IF usage = U01 THEN "u01"
    ELSE IF usage = U41 THEN "u41"
    ELSE IF usage = U45 THEN "u45"
    ELSE "none"

decode_and_process_report(frame) ==
    LET decoder == DecoderFor(B(frame, 1)) IN
    CASE decoder = "u01" -> decode_u01(Body(frame))
      [] decoder = "u41" -> decode_u41(Body(frame))
      [] decoder = "u45" -> decode_u45(Body(frame))
      [] OTHER -> Logged(<<>>)

\* AxiomReportLoggingFilter.__init__: every known report starts disabled
KnownReports == {1, 33, 65, 69, 70, 76, 129, 243}
NoReports == [u \in KnownReports |-> FALSE]

\* Mutant: a usage that is not known is added to the filter.
update_filter_adds(filter, usage, on) ==
    [u \in DOMAIN filter \cup {usage} |-> IF u = usage THEN on ELSE filter[u]]

\* AxiomReportLoggingFilter.update_filter
update_filter(filter, usage, on) ==
    IF usage \in DOMAIN filter THEN [filter EXCEPT ![usage] = on] ELSE filter

\* for report in args.reports: report_filter.update_filter(report, True)
RECURSIVE EnableAll(_, _)
EnableAll(filter, usages) ==
    IF usages = <<>> THEN filter
    ELSE EnableAll(update_filter(filter, Head(usages), TRUE), Tail(usages))

\* AxiomReportLoggingFilter.filter: the record reaches the handler
Emitted(filter, record) == filter[record.usage]

----------------------------------------------------------------------------
(* The report frames the device hands out *)

\* ax.u31.max_report_len: the length of every read of the report FIFO
FrameLen == 58

\* byte 0 of a frame: the length in words, with and without the overflow bit
LengthBytes == {29, 157}

\* a frame of zeros but for byte 0, the usage in byte 1 and the bytes set
\* (frame offset :> value)
Frame(b0, usage, set) ==
    [k \in 1..FrameLen |->
        IF k = 1 THEN b0
        ELSE IF k = 2 THEN usage
        ELSE IF (k - 1) \in DOMAIN set THEN set[k - 1]
        ELSE 0]

\* bodies of u01 reports: a heartbeat, and a type outside report_types
U01Bodies == { (2 :> 1 @@ 4 :> 3 @@ 44 :> 7), (2 :> 4) }

\* bodies of u41 reports: targets 0 and 2 present; nothing to report;
\* targets 1 and 9 present with extra information and two-byte values;
\* extra information and no target
U41Bodies ==
    { (2 :> 5 @@ 4 :> 10 @@ 6 :> 20 @@ 44 :> 30
         @@ 12 :> 11 @@ 14 :> 21 @@ 46 :> 31 @@ 54 :> 9),
      <<>>,
      (2 :> 2 @@ 3 :> 6 @@ 8 :> 1 @@ 9 :> 2 @@ 10 :> 3 @@ 11 :> 4 @@ 45 :> 8
         @@ 40 :> 5 @@ 41 :> 1 @@ 42 :> 6 @@ 43 :> 2 @@ 53 :> 12
         @@ 54 :> 7 @@ 55 :> 1),
      (3 :> 4 @@ 4 :> 10 @@ 54 :> 2) }

\* bodies of u45 reports: CoM 1 valid, no CoM valid, and a reason outside
\* PossibleReasonsEffect
U45Bodies ==
    { (10 :> 3 @@ 11 :> 1 @@ 13 :> 2 @@ 14 :> 40 @@ 16 :> 50 @@ 34 :> 6),
      <<>>,
      (3 :> 1 @@ 5 :> 9) }

\* usages no decoder is registered for: no report, u46, u81
UnregisteredUsages == {0, 70, 129}
OtherBodies == { <<>>, (2 :> 1 @@ 3 :> 1 @@ 44 :> 7) }

Frames ==
    { Frame(b0, U01, body) : b0 \in LengthBytes, body \in U01Bodies }
    \cup { Frame(b0, U41, body) : b0 \in LengthBytes, body \in U41Bodies }
    \cup { Frame(b0, U45, body) : b0 \in LengthBytes, body \in U45Bodies }
    \cup { Frame(b0, usage, body) :
             b0 \in LengthBytes, usage \in UnregisteredUsages, body \in OtherBodies }

\* args.reports: the default, one decoded report, one unknown usage
ReportArgs == { <<1, 65>>, <<69>>, <<153>> }

----------------------------------------------------------------------------
(* axrpt.py: __main__ and the two dispatch loops *)

SUCCESS == 0
ERROR_AXIOM_IN_BOOTLOADER == 3

RptCall(op, thread, ok) == Call(op, thread, U34, <<>>, ok)

\* the comms.read_page calls made so far
ReadPages == SelectSeq(calls, LAMBDA c : c.op = "read_page")

\* the records of one dispatch as the logger takes them: the filter decides
\* which reach the handler
Handled(filter, records) ==
    [i \in 1..Len(records) |->
        [usage |-> records[i].usage, fields |-> records[i].fields,
         emitted |-> Emitted(filter, records[i])]]

\* Mutant: the exit code does not tell the bootloader mode.
ExitCodeAlwaysSuccess(mode) == SUCCESS

\* exit_code = ERROR_AXIOM_IN_BOOTLOADER in bootloader mode, else the SUCCESS
\* it was primed with (axut.py: 3 and 0)
ExitCodeFor(mode) ==
    IF mode = "bootloader" THEN ERROR_AXIOM_IN_BOOTLOADER ELSE SUCCESS

BootloaderMessage == "INFO: aXiom device is in bootloader mode."

\* Mutant: the loops do not look at the flag.
LoopNeverEnds(flag) == TRUE

\* while not keyboard_signal_interrupt_requested
LoopGoesOn(flag) == ~flag

\* Mutant: GPIO.cleanup() leaves the edge detection in force.
CleanupKeepsDetect(detect) == detect

\* GPIO.cleanup(): the edge detection and its callback are removed
CleanupDetect(detect) == FALSE

\* Mutant: after the priming read the main thread goes on reading the FIFO.
RptStepAfterPolls(step) ==
    CASE step = "interrupts" -> "prime"
      [] step = "prime" -> "priming"
      [] step = "priming" -> "polled"
      [] step = "irq_wait" -> "cleanup"
      [] step = "cleanup" -> "close"

\* the order of the statements of main_loop_interrupts
RptStepAfter(step) ==
    CASE step = "interrupts" -> "prime"
      [] step = "prime" -> "priming"
      [] step = "priming" -> "irq_wait"
      [] step = "irq_wait" -> "cleanup"
      [] step = "cleanup" -> "close"

\* lines 325-356: the filter, the SIGINT handler, the bootloader test
RptMain ==
    /\ prog = "axrpt" /\ pc = "main"
    /\ reports' = EnableAll(reports, enabled)
    /\ calls' = Append(calls, Call("is_in_bootloader_mode", "", 0, <<>>, TRUE))
    /\ IF devMode = "bootloader"
       THEN /\ messages' = Append(messages, BootloaderMessage)
            /\ pc' = "close"
       ELSE /\ pc' = IF gpioint THEN "interrupts" ELSE "polled"
            /\ UNCHANGED messages
    /\ UNCHANGED <<prog, outcome, cfgVars, fwVars, gpioint, enabled,
                   keyboard_signal_interrupt_requested, event_detect, irq_pc,
                   edges, report, report_log>>

\* custom_signal_handler, once signal.signal has registered it
RptSigint ==
    /\ prog = "axrpt" /\ pc \notin {"main", "done"}
    /\ keyboard_signal_interrupt_requested' = TRUE
    /\ UNCHANGED <<prog, pc, outcome, calls, cfgVars, fwVars, gpioint, enabled,
                   reports, event_detect, irq_pc, edges, report, report_log,
                   messages>>

\* main_loop_polled: the flag is not set, comms.read_page is called
RptPollBegin ==
    /\ prog = "axrpt" /\ pc = "polled"
    /\ LoopGoesOn(keyboard_signal_interrupt_requested)
    /\ Len(ReadPages) < MaxReads
    /\ calls' = Append(calls, RptCall("read_page", "main", TRUE))
    /\ pc' = "poll_read"
    /\ UNCHANGED <<prog, outcome, cfgVars, fwVars, rptVars>>

\* the effect of decode_and_process_report(frame, report_logger) on the
\* records logged
Dispatch(frame) ==
    LET result == decode_and_process_report(frame) IN
    /\ report' = frame
    /\ report_log' = report_log \o Handled(reports, result.records)

\* main_loop_polled: the read returns a frame, the frame is dispatched, the
\* loop sleeps and tests the flag again
RptPollEnd ==
    /\ prog = "axrpt" /\ pc = "poll_read"
    /\ \E frame \in Frames :
         /\ Dispatch(frame)
         /\ IF decode_and_process_report(frame).raised
            THEN Finish(Raise(decode_and_process_report(frame).exc))
            ELSE pc' = "polled" /\ UNCHANGED outcome
    /\ UNCHANGED <<prog, calls, cfgVars, fwVars, gpioint, enabled, reports,
                   keyboard_signal_interrupt_requested, event_detect, irq_pc, edges,
                   messages>>

\* main_loop_polled returns: the flag is set
RptPollExit ==
    /\ prog = "axrpt" /\ pc = "polled"
    /\ ~LoopGoesOn(keyboard_signal_interrupt_requested)
    /\ pc' = "close"
    /\ UNCHANGED <<prog, outcome, calls, cfgVars, fwVars, rptVars>>

\* main_loop_interrupts, lines 255-260: GPIO.setup, GPIO.add_event_detect
RptSetup ==
    /\ prog = "axrpt" /\ pc = "interrupts"
    /\ event_detect' = TRUE
    /\ pc' = RptStepAfter(pc)
    /\ UNCHANGED <<prog, outcome, calls, cfgVars, fwVars, gpioint, enabled, reports,
                   keyboard_signal_interrupt_requested, irq_pc, edges, report,
                   report_log, messages>>

\* line 266: the priming read is called
RptPrimeBegin ==
    /\ prog = "axrpt" /\ pc = "prime"
    /\ calls' = Append(calls, RptCall("read_page", "main", TRUE))
    /\ pc' = RptStepAfter(pc)
    /\ UNCHANGED <<prog, outcome, cfgVars, fwVars, rptVars>>

\* line 266: the priming read returns and its frame is thrown away
RptPrimeEnd ==
    /\ prog = "axrpt" /\ pc = "priming"
    /\ pc' = RptStepAfter(pc)
    /\ UNCHANGED <<prog, outcome, calls, cfgVars, fwVars, rptVars>>

\* a falling edge on the pin: the GPIO library calls gpio_interrupt on its
\* callback thread, which calls comms.read_page
RptEdge ==
    /\ prog = "axrpt" /\ pc # "done"
    /\ event_detect /\ irq_pc = "idle"
    /\ Len(ReadPages) < MaxReads
    /\ edges' = edges + 1
    /\ calls' = Append(calls, RptCall("read_page", "irq", TRUE))
    /\ irq_pc' = "reading"
    /\ UNCHANGED <<prog, pc, outcome, cfgVars, fwVars, gpioint, enabled, reports,
                   keyboard_signal_interrupt_requested, event_detect, report,
                   report_log, messages>>

\* gpio_interrupt: the read returns and the frame is dispatched; what the
\* GPIO library does with an exception of the callback is its own affair
RptIrqEnd ==
    /\ prog = "axrpt" /\ pc # "done"
    /\ irq_pc = "reading"
    /\ \E frame \in Frames :
         /\ Dispatch(frame)
         /\ IF decode_and_process_report(frame).raised
            THEN irq_pc' \in {"idle", "dead"}
            ELSE irq_pc' = "idle"
    /\ UNCHANGED <<prog, pc, outcome, calls, cfgVars, fwVars, gpioint, enabled,
                   reports, keyboard_signal_interrupt_requested, event_detect, edges,
                   messages>>

\* lines 268-269: the waiting loop finds the flag set and ends; the
\* callback thread runs on until GPIO.cleanup() has been called
RptWaitExit ==
    /\ prog = "axrpt" /\ pc = "irq_wait"
    /\ ~LoopGoesOn(keyboard_signal_interrupt_requested)
    /\ pc' = RptStepAfter(pc)
    /\ UNCHANGED <<prog, outcome, calls, cfgVars, fwVars, rptVars>>

\* line 271: GPIO.cleanup(), and main_loop_interrupts returns
RptCleanup ==
    /\ prog = "axrpt" /\ pc = "cleanup"
    /\ event_detect' = CleanupDetect(event_detect)
    /\ pc' = RptStepAfter(pc)
    /\ UNCHANGED <<prog, outcome, calls, cfgVars, fwVars, gpioint, enabled, reports,
                   keyboard_signal_interrupt_requested, irq_pc, edges, report,
                   report_log, messages>>

\* lines 358-359: ax.close(); sys.exit(exit_code)
RptClose ==
    /\ prog = "axrpt" /\ pc = "close"
    /\ calls' = Append(calls, Call("close", "", 0, <<>>, TRUE))
    /\ Finish(Exit(ExitCodeFor(devMode)))
    /\ UNCHANGED <<prog, cfgVars, fwVars, rptVars>>

\* a call on the main thread that reaches the device raises; the bootloader
\* test comes after the filter has been set up
RptTransportError ==
    /\ prog = "axrpt"
    /\ \/ pc = "main"
            /\ calls' = Append(calls, Call("is_in_bootloader_mode", "", 0, <<>>, FALSE))
       \/ pc \in {"poll_read", "priming"}
            /\ LET last == CHOOSE i \in 1..Len(calls) :
                               /\ calls[i] = RptCall("read_page", "main", TRUE)
                               /\ \A j \in (i + 1)..Len(calls) :
                                     calls[j] # RptCall("read_page", "main", TRUE)
               IN  calls' = [calls EXCEPT ![last].ok = FALSE]
    /\ reports' = IF pc = "main" THEN EnableAll(reports, enabled) ELSE reports
    /\ Finish(Raise("TransportError"))
    /\ UNCHANGED <<prog, cfgVars, fwVars, gpioint, enabled,
                   keyboard_signal_interrupt_requested, event_detect, irq_pc,
                   edges, report, report_log, messages>>

\* axut.py, lines 32-44: the bootloader test, and the device information
\* and the usage table when the device runs its firmware
AxutMain ==
    /\ prog = "axut" /\ pc = "main"
    /\ IF devMode = "bootloader"
       THEN /\ calls' = Append(calls, Call("is_in_bootloader_mode", "", 0, <<>>, TRUE))
            /\ messages' = Append(messages, BootloaderMessage)
       ELSE /\ calls' = calls \o
                   << Call("is_in_bootloader_mode", "", 0, <<>>, TRUE),
                      Call("print_device_info", "", 0, <<>>, TRUE),
                      Call("print_usage_table", "", 0, <<>>, TRUE) >>
            /\ UNCHANGED messages
    /\ pc' = "close"
    /\ UNCHANGED <<prog, outcome, cfgVars, fwVars, gpioint, enabled, reports,
                   keyboard_signal_interrupt_requested, event_detect, irq_pc,
                   edges, report, report_log>>

\* axut.py, lines 47-48: ax.close(); sys.exit(exit_code)
AxutClose ==
    /\ prog = "axut" /\ pc = "close"
    /\ calls' = Append(calls, Call("close", "", 0, <<>>, TRUE))
    /\ Finish(Exit(ExitCodeFor(devMode)))
    /\ UNCHANGED <<prog, cfgVars, fwVars, rptVars>>

\* axut.py: is_in_bootloader_mode raises
AxutTransportError ==
    /\ prog = "axut" /\ pc = "main"
    /\ calls' = Append(calls, Call("is_in_bootloader_mode", "", 0, <<>>, FALSE))
    /\ Finish(Raise("TransportError"))
    /\ UNCHANGED <<prog, cfgVars, fwVars, rptVars>>

InitRpt ==
    /\ pc = "main"
    /\ outcome = NoOutcome
    /\ calls = <<>>
    /\ \/ prog = "axrpt" /\ gpioint \in BOOLEAN /\ enabled \in ReportArgs
       \/ prog = "axut" /\ gpioint = FALSE /\ enabled = <<>>
    /\ reports = NoReports
    /\ keyboard_signal_interrupt_requested = FALSE
    /\ event_detect = FALSE /\ irq_pc = "idle" /\ edges = 0
    /\ report = <<>> /\ report_log = <<>> /\ messages = <<>>
    /\ devMode \in {"normal", "bootloader"}
    /\ config_file = <<>> /\ given = [recs |-> <<>>, devU04 |-> <<>>]
    /\ overwrite_u04 = FALSE
    /\ devU33 = <<1, 1>>
    /\ devUsages = [u \in UsageIds |-> FillContent]
    /\ u33 = <<>>
    /\ extracted = [raised |-> FALSE, size |-> 0, usages |-> <<>>]
    /\ u33_from_file = <<>>
    /\ u04 = <<>>
    /\ idx = 0
    /\ bytes_written = 0
    /\ firmware_file = <<>> /\ file_type = "other"
    /\ force_download = FALSE /\ print_info = FALSE
    /\ device_info = <<>> /\ u31_device_information = <<>>
    /\ file_pos = 0

NextRpt ==
    \/ RptMain
    \/ RptSigint
    \/ RptPollBegin
    \/ RptPollEnd
    \/ RptPollExit
    \/ RptSetup
    \/ RptPrimeBegin
    \/ RptPrimeEnd
    \/ RptEdge
    \/ RptIrqEnd
    \/ RptWaitExit
    \/ RptCleanup
    \/ RptClose
    \/ RptTransportError
    \/ AxutMain
    \/ AxutClose
    \/ AxutTransportError

SpecRpt == InitRpt /\ [][NextRpt]_vars

\* the steps of the main thread: the interpreter runs on, time.sleep returns
\* and, as far as a read returns at all, so does comms.read_page
RptMainThread ==
    \/ RptMain
    \/ RptPollBegin
    \/ RptPollEnd
    \/ RptPollExit
    \/ RptSetup
    \/ RptPrimeBegin
    \/ RptPrimeEnd
    \/ RptWaitExit
    \/ RptCleanup
    \/ RptClose

SpecRptLive == InitRpt /\ [][NextRpt]_vars /\ WF_vars(RptMainThread)

----------------------------------------------------------------------------
(* Properties of the config load *)

\* the file was decoded: the first read of u33 went through
Decoded == prog = "axcfg" /\ pc # "axcfg" /\ calls[1].ok

\* the file held a usage 0x33 entry that was unpacked into u33_from_file
FileU33Known == Decoded /\ u33_from_file # <<>>

\* the file held a usage 0x31 entry that was unpacked into u31_from_file
FileU31Known ==
    /\ FileU33Known /\ DictHas(Usages, U31)
    /\ Len(DictGet(Usages, U31)[3]) = Len(DeviceU31)

CrcDiffers == FileU33Known /\ RuntimeCrc(u33_from_file) # RuntimeCrc(devU33)
CrcMatches == FileU33Known /\ RuntimeCrc(u33_from_file) = RuntimeCrc(devU33)

Commands == SelectSeq(calls, IsCommand)
CommandNames == [i \in 1..Len(Commands) |-> Commands[i].cmd]
CommandOrder == <<"CMD_STOP", "CMD_FILL_CONFIG", "CMD_SAVE_CONFIG", "CMD_SOFT_RESET">>

NoDeviceChange == \A i \in 1..Len(calls) : ~IsWrite(calls[i]) /\ ~IsCommand(calls[i])

Sent(cmd, before) == \E j \in 1..(before - 1) : calls[j].cmd = cmd

TransportFailed == outcome.exc = "TransportError"

\* the calls config_write_usage_to_device(usage, ...) made so far
FileWritesOf(usage) ==
    { i \in 1..Len(calls) :
        calls[i].op = "config_write_usage_to_device" /\ calls[i].usage = usage }

\* the write loop has run to its end
WritePhaseOver == Decoded /\ (pc \in {"save", "reset", "verify"} \/ Sent("CMD_SAVE_CONFIG", Len(calls) + 1))

C3_FixedOrder ==
    /\ Len(CommandNames) <= Len(CommandOrder)
    /\ CommandNames = SubSeq(CommandOrder, 1, Len(CommandNames))
    /\ \A i \in 1..Len(calls) :
         /\ IsWrite(calls[i]) =>
               Sent("CMD_STOP", i) /\ ~Sent("CMD_SAVE_CONFIG", i)
         /\ calls[i].op = "config_write_usage_to_device" => Sent("CMD_FILL_CONFIG", i)
         /\ (i > 1 /\ calls[i].op = "read_usage" /\ calls[i].usage = U33) =>
               Sent("CMD_SOFT_RESET", i) /\ i = Len(calls)
         /\ ~calls[i].ok => i = Len(calls)
    /\ (outcome.kind = "return" /\ outcome.code \in {0, 4}) =>
         /\ CommandNames = CommandOrder
         /\ \E i \in 1..Len(calls) :
              calls[i].op = "config_write_usage_to_device" /\ Sent("CMD_FILL_CONFIG", i)

C3_Witness ==
    /\ pc = "done" /\ outcome = Return(4)
    /\ Len(calls) >= 10

\* C4: the file's usage 0x04 entry is written only with the overwrite flag,
\* and once the write loop is over every other entry decoded from the file
\* has been written exactly once, with its content (and so has the 0x04
\* entry when the flag is set).
C4_OnlyU04Skipped ==
    /\ FileWritesOf(U04) # {} => overwrite_u04
    /\ WritePhaseOver =>
         \A k \in 1..Len(Usages) :
            LET w == FileWritesOf(Usages[k][1]) IN
            IF Usages[k][1] = U04 /\ ~overwrite_u04 THEN w = {}
            ELSE /\ Cardinality(w) = 1
                 /\ \A i \in w : calls[i].data = Usages[k][3]

C4_Witness ==
    /\ pc = "save" /\ ~overwrite_u04
    /\ DictHas(Usages, U04) /\ Len(Usages) >= 3
    /\ Cardinality(FileWritesOf(U33)) = 1 /\ Cardinality(FileWritesOf(U31)) = 1

\* C5: usage 0x04 is read right before the fill command and written back
\* right after it, and without the overwrite flag the device holds, when the
\* write loop is over, the customer data it held before the load.
C5_CustomerDataKept ==
    /\ \A i \in 1..Len(calls) :
         (calls[i].cmd = "CMD_FILL_CONFIG" /\ calls[i].ok) =>
            /\ i > 1 /\ calls[i - 1] = Call("read_usage", "", U04, <<>>, TRUE)
            /\ i < Len(calls) =>
                 /\ calls[i + 1].op = "write_usage"
                 /\ calls[i + 1].usage = U04
                 /\ calls[i + 1].data = given.devU04
    /\ (WritePhaseOver /\ ~overwrite_u04) => devUsages[U04] = given.devU04

C5_Witness ==
    /\ pc = "save" /\ ~overwrite_u04 /\ DictHas(Usages, U04)
    /\ DictGet(Usages, U04)[3] # given.devU04
    /\ devUsages[U04] = given.devU04 /\ devUsages[U04] # FillContent

\* the read of u33 that follows the soft reset went through
ReadBack ==
    /\ Len(calls) > 1
    /\ calls[Len(calls)] = Call("read_usage", "", U33, <<>>, TRUE)
    /\ Sent("CMD_SAVE_CONFIG", Len(calls)) /\ Sent("CMD_SOFT_RESET", Len(calls))

\* C6: the load returns 0 only after u33 was read back after save and reset
\* and equals the file's u33; when the u33 read back differs the load
\* returns 4; and 3 is returned only by the compatibility check, before any
\* command.
C6_VerifiedOrCode4 ==
    /\ outcome = Return(0) => (ReadBack /\ compare_u33(devU33, u33_from_file))
    /\ (pc = "done" /\ ReadBack /\ ~compare_u33(devU33, u33_from_file)) => outcome = Return(4)
    /\ outcome = Return(4) => ReadBack
    /\ outcome = Return(3) => Commands = <<>>

C6_Witness ==
    /\ pc = "done" /\ ReadBack /\ outcome = Return(4)
    /\ RuntimeCrc(devU33) = RuntimeCrc(u33_from_file) /\ devU33 # u33_from_file

\* the file starts with four bytes that are not the config signature
ForeignSignature == Len(config_file) >= 4 /\ SubSeq(config_file, 1, 4) # GoodMagic

\* C7: decoding a file whose signature is not 0x20071969 ends in an error,
\* no record of it is decoded and nothing is written to the device.
C7_ForeignSignatureIsError ==
    (Decoded /\ ForeignSignature) =>
        (extracted.raised /\ extracted.usages = <<>> /\ NoDeviceChange)

\* the offsets at which a record of the file ends
RecordEnds ==
    { CFG_HEADER_LEN + SumLen([i \in 1..k |-> EncodeRecord(given.recs[i])]) :
        k \in 1..Len(given.recs) }

\* the file has the signature and ends inside a record, or holds no record
CutShort ==
    /\ Len(config_file) >= 4 /\ SubSeq(config_file, 1, 4) = GoodMagic
    /\ Len(config_file) \notin RecordEnds

\* C8: decoding a file with the signature that ends inside a record header
\* or inside a record's content raises, returns no entry, and the load ends
\* there without a command or a usage write.
C8_CutShortRejected ==
    (Decoded /\ CutShort) =>
        /\ extracted.raised /\ extracted.usages = <<>>
        /\ pc = "done" /\ outcome = Raise("struct.error")
        /\ NoDeviceChange

C8_Witness ==
    /\ Decoded /\ CutShort /\ extracted.raised
    /\ Len(given.recs) = 3
    /\ \E i, j \in 1..3 : given.recs[i][1] = U33 /\ given.recs[j][1] = U31
    /\ Len(config_file) > CFG_HEADER_LEN + Len(EncodeRecord(given.recs[1]))

----------------------------------------------------------------------------
(* Properties of the firmware download *)

\* a run that downloads an .axfw file (not the -info report)
AxfwRun == prog = "axfw" /\ file_type = "axfw" /\ ~print_info

CallsOf(ops) == { i \in 1..Len(calls) : calls[i].op \in ops }

\* the header fields as the file format lays them out
HeaderDeviceId == H(firmware_file, 10) + 256 * H(firmware_file, 11)
HeaderVariant == H(firmware_file, 12)
HeaderVersion == <<H(firmware_file, 14), H(firmware_file, 13), H(firmware_file, 15)>>

\* the device information: 10 bits of channel count, 5 bits of variant
DeviceChannels == (H(device_info, 0) + 256 * H(device_info, 1)) % 1024
DeviceVariant == ((H(device_info, 0) + 256 * H(device_info, 1)) \div 1024) % 32
DeviceVersion == <<H(device_info, 3), H(device_info, 2), H(device_info, 11) \div 16>>

SameFirmware ==
    /\ Len(firmware_file) >= AXFW_HEADER_LEN
    /\ HeaderDeviceId = DeviceChannels
    /\ HeaderVariant = DeviceVariant
    /\ HeaderVersion = DeviceVersion

\* the file is no valid .axfw file: signature, CRC-32 or format version
InvalidAxfw ==
    \/ Len(firmware_file) < AXFW_HEADER_LEN
    \/ SubSeq(firmware_file, 1, 4) # AXFW_SIGNATURE
    \/ SubSeq(firmware_file, 5, 8) # crc32(SubSeq(firmware_file, 9, Len(firmware_file)))
    \/ <<H(firmware_file, 9), H(firmware_file, 8)>> # <<2, 0>>

\* C9: when the file carries the device ID, variant and version of the
\* device and -force is not given, the run makes no enter_bootloader_mode
\* call and no bootloader_write_chunk call.
C9_UpToDateTouchesNothing ==
    (AxfwRun /\ ~force_download /\ SameFirmware) =>
        CallsOf({"enter_bootloader_mode", "bootloader_write_chunk"}) = {}

\* C10: an .axfw file that fails validation causes no enter_bootloader_mode
\* call, no bootloader_write_chunk call and no bootloader_reset_axiom call.
C10_InvalidFileTouchesNothing ==
    (AxfwRun /\ InvalidAxfw) =>
        CallsOf({"enter_bootloader_mode", "bootloader_write_chunk",
                 "bootloader_reset_axiom"}) = {}

\* a run that downloads a firmware file of either type
DownloadRun == prog = "axfw" /\ file_type \in {"axfw", "alc"} /\ ~print_info

WriteChunkCalls == SelectSeq(calls, LAMBDA c : c.op = "bootloader_write_chunk")

\* the (header, payload) pairs handed to bootloader_write_chunk, in call order
Written == [i \in 1..Len(WriteChunkCalls) |-> WriteChunkCalls[i].data]

\* enter_bootloader_mode returned True before call i
EnteredBefore(i) ==
    \E j \in 1..(i - 1) :
        calls[j] = FwCall("enter_bootloader_mode", StatusByte(TRUE), TRUE)

\* call j is an enter_bootloader_mode that raised or returned False
EnterFailedAt(j) ==
    /\ calls[j].op = "enter_bootloader_mode"
    /\ (~calls[j].ok \/ calls[j].data = StatusByte(FALSE))

\* C11: every bootloader_write_chunk call comes after an enter_bootloader_mode
\* call that returned True, and a run whose enter_bootloader_mode call returned
\* False or raised ends right there, with exit status -1 or the exception, and
\* has written no chunk.
C11_ChunksOnlyInBootloader ==
    /\ \A i \in CallsOf({"bootloader_write_chunk"}) : EnteredBefore(i)
    /\ \A j \in 1..Len(calls) :
          (prog = "axfw" /\ EnterFailedAt(j)) =>
             /\ j = Len(calls) /\ pc = "done" /\ devMode = "normal"
             /\ outcome = IF calls[j].ok THEN Exit(-1) ELSE Raise("TransportError")
             /\ CallsOf({"bootloader_write_chunk"}) = {}

C11_Witness ==
    /\ file_type = "alc" /\ Len(Written) = 2
    /\ \A i \in CallsOf({"bootloader_write_chunk"}) : EnteredBefore(i)

\* the CRC field of the file is not the CRC-32 of the bytes from offset 8 on
CrcFieldWrong ==
    /\ Len(firmware_file) >= 8
    /\ SubSeq(firmware_file, 5, 8) # crc32(SubSeq(firmware_file, 9, Len(firmware_file)))

\* C12: an .axfw file whose little-endian CRC field at offset 4 differs from
\* the CRC-32 of the bytes from offset 8 to the end fails validation with and
\* without -force, the download loop is never entered and no chunk is written
\* (stated as: a run that enters the loop or writes a chunk, and a file that
\* validation can let through, has the CRC-32 in its CRC field).
C12_CrcMismatchFailsValidation ==
    /\ (AxfwRun /\ (pc = "download" \/ CallsOf({"bootloader_write_chunk"}) # {})) =>
          ~CrcFieldWrong
    /\ (AxfwRun /\ pc = "validate" /\ Len(firmware_file) >= AXFW_HEADER_LEN
                /\ axfw_check_file_and_validate_parameters(
                       device_info, firmware_file, TRUE) = STATUS_SUCCESS) =>
          ~CrcFieldWrong
    /\ (AxfwRun /\ pc = "validate" /\ Len(firmware_file) >= AXFW_HEADER_LEN
                /\ axfw_check_file_and_validate_parameters(
                       device_info, firmware_file, FALSE) = STATUS_SUCCESS) =>
          ~CrcFieldWrong

C12_Witness ==
    /\ AxfwRun /\ force_download /\ pc = "reset"
    /\ firmware_file = MutateByte(UpdateFile, Len(UpdateFile) - 1)
    /\ u31_device_information = device_info
    /\ CallsOf({"enter_bootloader_mode"}) # {} /\ CallsOf({"bootloader_write_chunk"}) = {}

\* the format version of the header, major first
FormatVersion == <<H(firmware_file, 9), H(firmware_file, 8)>>

\* C13: an .axfw file whose format version is not 2.0 is rejected: the
\* download loop is not entered and no chunk is written.
C13_OnlyFormat2_0Accepted ==
    (AxfwRun /\ Len(firmware_file) >= AXFW_HEADER_LEN /\ FormatVersion # <<2, 0>>) =>
        (pc # "download" /\ CallsOf({"bootloader_write_chunk"}) = {})

\* C14: an .axfw file whose device ID is not the channel count of the device
\* is rejected with and without -force: no chunk is written.
C14_DeviceIdNeverOverridable ==
    (AxfwRun /\ Len(firmware_file) >= AXFW_HEADER_LEN /\ HeaderDeviceId # DeviceChannels) =>
        (pc # "download" /\ CallsOf({"bootloader_write_chunk"}) = {})

\* C15: without -force an .axfw file whose variant byte is not the variant
\* of the device is rejected: no chunk is written.
C15_VariantNeedsForce ==
    (AxfwRun /\ Len(firmware_file) >= AXFW_HEADER_LEN /\ ~force_download
             /\ HeaderVariant # DeviceVariant) =>
        (pc # "download" /\ CallsOf({"bootloader_write_chunk"}) = {})

\* C16: a run that downloaded the chunks of an .axfw file exits with status 0
\* only if the runtime CRC the device reports after the reset is the CRC
\* embedded at offset 20 of the file.
C16_CrcMismatchIsHardFailure ==
    (AxfwRun /\ pc = "done" /\ outcome = Exit(0) /\ Written # <<>>) =>
        RuntimeCrc(devU33) = stored_nvm_crc(firmware_file)

\* the bytes that hold the chunks: an .axfw file from offset 24, an .alc
\* file from offset 0
FirmwareBody ==
    IF file_type = "axfw"
    THEN SubSeq(firmware_file, AXFW_HEADER_LEN + 1, Len(firmware_file))
    ELSE firmware_file

\* the chunks a body holds, in file order, as (header, payload) pairs, and
\* whether the body is a whole number of chunks, at least one
RECURSIVE ChunkStream(_)
ChunkStream(body) ==
    IF Len(body) < 8 THEN [chunks |-> <<>>, whole |-> FALSE]
    ELSE LET n == body[7] * 256 + body[8] IN
         IF Len(body) < 8 + n THEN [chunks |-> <<>>, whole |-> FALSE]
         ELSE LET chunk == <<SubSeq(body, 1, 8), SubSeq(body, 9, 8 + n)>> IN
              IF Len(body) = 8 + n THEN [chunks |-> <<chunk>>, whole |-> TRUE]
              ELSE LET rest == ChunkStream(SubSeq(body, 9 + n, Len(body))) IN
                   [chunks |-> <<chunk>> \o rest.chunks, whole |-> rest.whole]

\* the run got to the download loop: enter_bootloader_mode returned True and,
\* for an .axfw file, validation returned STATUS_SUCCESS
DownloadReached ==
    /\ DownloadRun /\ pc # "validate" /\ EnteredBefore(Len(calls) + 1)
    /\ file_type = "axfw" =>
          /\ u31_device_information # <<>>
          /\ Len(firmware_file) >= AXFW_HEADER_LEN
          /\ axfw_check_file_and_validate_parameters(
                 u31_device_information, firmware_file, force_download) = STATUS_SUCCESS

\* the loop is over and no bootloader_write_chunk call raised
LoopOver == DownloadReached /\ pc # "download" /\ ~TransportFailed

\* C17: the bootloader_write_chunk calls of a run are determined by the
\* chunk bytes alone, whichever of the two file types carries them: at every
\* moment the calls made are the first chunks of the body in file order, each
\* with its 8-byte header and its payload; when the body is a whole number
\* of chunks the loop ends without an error having made one call per chunk.
C17_SameCallsForSameChunks ==
    DownloadRun =>
        LET stream == ChunkStream(FirmwareBody) IN
        /\ Len(Written) <= Len(stream.chunks)
        /\ Written = SubSeq(stream.chunks, 1, Len(Written))
        /\ (LoopOver /\ stream.whole) =>
              (Written = stream.chunks /\ outcome.exc # "struct.error")

C17_Witness ==
    /\ file_type = "axfw" /\ pc = "reset" /\ LoopOver
    /\ FirmwareBody \in ChunkBodies
    /\ Len(Written) = 2 /\ Written[1] # Written[2]
    /\ Written = ChunkStream(FirmwareBody).chunks

\* C18: every bootloader_write_chunk call carries an 8-byte header and a
\* payload of exactly the length the header declares, and a run whose body
\* ends inside a chunk (or holds none) ends the loop with struct.error.
C18_WholeChunksOnly ==
    /\ \A i \in 1..Len(Written) :
          /\ Len(Written[i][1]) = CHUNK_HEADER_LEN
          /\ Len(Written[i][2]) = Written[i][1][7] * 256 + Written[i][1][8]
    /\ (LoopOver /\ ~ChunkStream(FirmwareBody).whole) =>
          (pc = "done" /\ outcome = Raise("struct.error"))

C18_Witness ==
    /\ LoopOver /\ ~ChunkStream(FirmwareBody).whole
    /\ Len(Written) = 1 /\ Len(Written[1][2]) = 1
    /\ Len(FirmwareBody) = Len(Written[1][1]) + Len(Written[1][2]) + CHUNK_HEADER_LEN
    /\ outcome = Raise("struct.error")

\* C19: a firmware file whose body ends inside a chunk, the first or a later
\* one, has none of its chunks written.
C19_TruncatedFileWritesNothing ==
    (DownloadRun /\ Len(firmware_file) >= DownloadStart(file_type)
                 /\ ~ChunkStream(FirmwareBody).whole) =>
        Written = <<>>

----------------------------------------------------------------------------
(* Properties of the report dispatch *)

\* the usages decode_and_process_report has a decoder for
DecodedUsages == {1, 65, 69}

\* this step is a dispatch of the polled loop: the read returned a frame
PollDispatch ==
    /\ prog = "axrpt" /\ pc = "poll_read" /\ pc' # pc
    /\ outcome'.exc # "TransportError"

\* this step is a dispatch of the interrupt callback
IrqDispatch == prog = "axrpt" /\ irq_pc = "reading" /\ irq_pc' # irq_pc

\* C20: the dispatch of a frame whose usage byte is none of 0x01, 0x41, 0x45
\* hands no record to the logger and raises nothing, and the loop goes back
\* to its test (the callback thread back to waiting) for the next read.
C20_UnregisteredDropped ==
    [][ ((PollDispatch \/ IrqDispatch) /\ B(report', 1) \notin DecodedUsages) =>
            /\ report_log' = report_log
            /\ outcome' = outcome /\ outcome = NoOutcome
            /\ PollDispatch => pc' = "polled"
            /\ IrqDispatch => (irq_pc' = "idle" /\ pc' = pc) ]_vars

C20_Witness ==
    /\ prog = "axrpt" /\ pc = "poll_read" /\ Len(ReadPages) = 2
    /\ report # <<>> /\ B(report, 1) = 70 /\ B(report, 44) = 7
    /\ report_log = <<>> /\ outcome = NoOutcome

\* the same frame with the overflow flag (the top bit of byte 0) clear
ClearOverflow(frame) == [frame EXCEPT ![1] = @ % 128]

\* what a dispatch of the frame lets anybody see: the records logged, the
\* exception raised
Signalled(frame) ==
    [ records |-> Handled(reports, decode_and_process_report(frame).records),
      raised  |-> decode_and_process_report(frame).raised,
      exc     |-> decode_and_process_report(frame).exc ]

\* C21: the dispatch of a frame whose overflow flag is set is to be told
\* from the dispatch of the same frame with the flag clear, by the records
\* logged, by an exception or by a line printed (stated for the frames whose
\* records the filter lets through).
C21_OverflowSurfaced ==
    [][ ( /\ PollDispatch \/ IrqDispatch
          /\ B(report', 0) >= 128
          /\ B(report', 1) \in DecodedUsages /\ reports[B(report', 1)] ) =>
            \/ Signalled(report') # Signalled(ClearOverflow(report'))
            \/ messages' # messages ]_vars

\* the loop of main_loop_polled or main_loop_interrupts has found the flag
\* set and has ended
LoopObservedFlag ==
    /\ prog = "axrpt" /\ devMode = "normal"
    /\ keyboard_signal_interrupt_requested
    /\ pc \in {"cleanup", "close"}

\* C22: in both modes, once the loop has observed the cancellation flag as
\* set, no new comms.read_page is issued; a read in progress may complete.
C22_NoReadAfterObserved ==
    [][ LoopObservedFlag => Len(ReadPages') = Len(ReadPages) ]_vars

\* main_loop_polled or main_loop_interrupts has returned, or the run is over
LoopReturned == pc \in {"close", "done"}

\* C23: the cancellation flag, once set, is never cleared, and as long as
\* the main thread runs on and each of its reads returns, the loop returns
\* after the flag is set, in polled and in interrupt mode.
C23_CancellationLive ==
    /\ [][ keyboard_signal_interrupt_requested =>
               keyboard_signal_interrupt_requested' ]_vars
    /\ (prog = "axrpt" /\ keyboard_signal_interrupt_requested) ~> LoopReturned

C23_Witness ==
    /\ prog = "axrpt" /\ gpioint /\ devMode = "normal"
    /\ keyboard_signal_interrupt_requested
    /\ pc = "close" /\ outcome = NoOutcome
    /\ edges >= 1 /\ irq_pc = "idle"

\* the comms.read_page calls of the callback thread, of the main thread
IrqReads == SelectSeq(ReadPages, LAMBDA c : c.cmd = "irq")
MainReads == SelectSeq(ReadPages, LAMBDA c : c.cmd = "main")

\* C24: in interrupt mode every edge starts one callback, which issues one
\* comms.read_page and dispatches one frame; the only other read is the one
\* priming read of the main thread, issued once the handler is registered;
\* nothing is dispatched but by a callback.
C24_OneReadPerEdge ==
    [][ (prog = "axrpt" /\ gpioint) =>
            /\ Len(IrqReads') = edges'
            /\ Len(MainReads') <= 1
            /\ Len(MainReads') > Len(MainReads) => (event_detect /\ pc = "prime")
            /\ edges' # edges =>
                  (edges' = edges + 1 /\ irq_pc = "idle" /\ irq_pc' = "reading")
            /\ (report' # report \/ report_log' # report_log) => IrqDispatch
      ]_vars

C24_Witness ==
    /\ prog = "axrpt" /\ gpioint /\ pc = "irq_wait"
    /\ edges = 1 /\ Len(IrqReads) = 1 /\ Len(MainReads) = 1
    /\ irq_pc = "idle" /\ report_log # <<>>

\* C25: in interrupt mode, when main_loop_interrupts returns on cancellation
\* the edge detection has been removed: no callback read starts after the
\* return, and ax.close() is called only with the detection removed.
C25_HandlerDeregistered ==
    [][ (prog = "axrpt" /\ gpioint /\ devMode = "normal") =>
            /\ pc' = "close" => ~event_detect'
            /\ pc = "close" => Len(ReadPages') = Len(ReadPages)
            /\ CallsOf({"close"})' # CallsOf({"close"}) => ~event_detect
      ]_vars

C25_Witness ==
    /\ prog = "axrpt" /\ gpioint /\ devMode = "normal"
    /\ keyboard_signal_interrupt_requested
    /\ pc = "done" /\ outcome = Exit(SUCCESS)
    /\ edges >= 1 /\ ~event_detect
    /\ calls[Len(calls)].op = "close"

\* the comms.read_page calls that have been entered and have not returned
ReadsInProgress ==
    (IF pc \in {"poll_read", "priming"} THEN 1 ELSE 0)
        + (IF irq_pc = "reading" THEN 1 ELSE 0)

\* C26: in interrupt mode no two comms.read_page calls overlap in time; in
\* particular the priming read of the main thread never runs while a read
\* of a gpio_interrupt callback is in progress.
C26_ReadsSerialized ==
    (prog = "axrpt" /\ gpioint) => ReadsInProgress <= 1

\* the positions of axrpt.py inside main_loop_polled and main_loop_interrupts
LoopPositions ==
    {"polled", "poll_read", "interrupts", "prime", "priming", "irq_wait", "cleanup"}

\* C29: axrpt and axut on a device in bootloader mode issue no FIFO read,
\* enter no loop and print no table, print the bootloader message and exit
\* with the bootloader code 3; on the bootloader and on the normal path the
\* connection is closed before the exit.
C29_BootloaderNeverSilent ==
    prog \in {"axrpt", "axut"} =>
        /\ devMode = "bootloader" =>
              /\ ReadPages = <<>> /\ edges = 0 /\ report_log = <<>>
              /\ pc \notin LoopPositions
              /\ CallsOf({"print_device_info", "print_usage_table"}) = {}
              /\ (pc = "close" \/ outcome.kind = "exit") =>
                    messages = <<BootloaderMessage>>
              /\ outcome.kind = "exit" => outcome.code = 3
        /\ outcome.kind = "exit" =>
              (calls # <<>> /\ calls[Len(calls)] = Call("close", "", 0, <<>>, TRUE))
        /\ devMode = "normal" => messages = <<>>

C29_Witness ==
    /\ prog = "axrpt" /\ gpioint /\ devMode = "bootloader"
    /\ pc = "done" /\ outcome = Exit(3)
    /\ messages = <<BootloaderMessage>>
    /\ Len(calls) = 2

\* the calls that raised (or, for the try blocks of axfw.py, whose exception
\* was caught)
FailedCalls == { i \in 1..Len(calls) : ~calls[i].ok }

\* C27: when the device does not respond to the read of its device
\* information before a firmware update, no enter-bootloader command and no
\* chunk write is sent in that run.
C27_NoProgrammingWithoutInfo ==
    (prog = "axfw" /\ \E i \in FailedCalls : calls[i].op = "get_u31_device_info") =>
        CallsOf({"enter_bootloader_mode", "bootloader_write_chunk"}) = {}

\* C28: a transport error of a device operation of the firmware download,
\* the reset command included, ends the run as failed at once: the failed
\* call is the last call made and the run ends with the exception.
C28_TransportErrorEndsRun ==
    prog = "axfw" =>
        \A i \in FailedCalls :
            calls[i].op # "get_u31_device_info" =>
                (i = Len(calls) /\ pc = "done" /\ outcome.kind = "raise")

\* the config_write_usage_to_device calls made so far, as (usage, payload)
FileWrites ==
    LET writes == SelectSeq(calls, LAMBDA c : c.op = "config_write_usage_to_device")
    IN  [i \in 1..Len(writes) |-> <<writes[i].usage, writes[i].data>>]

\* the records the file declares that the u04 rule does not skip, in file
\* order, as (usage, payload)
DeclaredWrites ==
    LET recs == SelectSeq(given.recs, LAMBDA rec : WritesUsage(rec[1], overwrite_u04))
    IN  [i \in 1..Len(recs) |-> <<recs[i][1], recs[i][3]>>]

\* C30: for a complete file the write phase writes every record the file
\* declares (but those the u04 rule skips), in the order of the file, also
\* when a usage ID occurs in more than one record.
C30_WritesFollowFile ==
    (WritePhaseOver /\ config_file = EncodeFile(GoodMagic, given.recs)) =>
        FileWrites = DeclaredWrites

\* the file is complete: the encoding of the records it was built from
CompleteFile == given.recs # <<>> /\ config_file = EncodeFile(GoodMagic, given.recs)

\* the sum of the payload lengths of all the records of the file
PayloadBytes == SumLen([i \in 1..Len(given.recs) |-> given.recs[i][3]])

\* C31: the denominator of the progress is the sum of the payload lengths of
\* all records of the file; the numerator never decreases, never exceeds
\* the denominator and equals it once the last usage has been processed.
C31_ProgressIsPayloadBytes ==
    [][ (prog = "axcfg" /\ CompleteFile /\ Decoded' /\ ~extracted'.raised) =>
            /\ extracted'.size = PayloadBytes
            /\ bytes_written' >= bytes_written
            /\ bytes_written' <= extracted'.size
            /\ WritePhaseOver' => bytes_written' = extracted'.size ]_vars

\* the positions of the records that are the first of their usage ID
FirstPositions(recs) ==
    SelectSeq([i \in 1..Len(recs) |-> i],
              LAMBDA i : \A j \in 1..(i - 1) : recs[j][1] # recs[i][1])

\* the last record of the file with the given usage ID
LastRecordOf(recs, usage) ==
    recs[CHOOSE i \in 1..Len(recs) :
            /\ recs[i][1] = usage
            /\ \A j \in (i + 1)..Len(recs) : recs[j][1] # usage]

\* C32: the map decoded from a complete file has one entry per distinct
\* usage ID, keyed by the ID it holds; an ID that occurs in several records
\* keeps the place of its first record and holds the revision and the
\* payload of its last.
C32_OneEntryPerUsage ==
    (Decoded /\ CompleteFile) =>
        /\ ~extracted.raised
        /\ \A i, j \in 1..Len(Usages) : Usages[i][1] = Usages[j][1] => i = j
        /\ { Usages[i][1] : i \in 1..Len(Usages) }
              = { given.recs[i][1] : i \in 1..Len(given.recs) }
        /\ Usages = [k \in 1..Len(FirstPositions(given.recs)) |->
                       LastRecordOf(given.recs,
                                    given.recs[FirstPositions(given.recs)[k]][1])]

C32_Witness ==
    /\ Decoded
    /\ given.recs = << <<64, 1, <<>>>>, <<51, 1, <<1, 1>>>>, <<64, 2, <<3>>>> >>
    /\ CompleteFile
    /\ Usages = << <<64, 2, <<3>>>>, <<51, 1, <<1, 1>>>> >>

\* C33: every pass of the download loop either ends the run with an error or
\* writes one chunk and moves the file offset forward, never beyond the file
\* size; the loop ends without an error exactly when the offset equals the
\* file size, having written one chunk per complete chunk; no write is made
\* with the offset at the file size, so a body with no bytes ends with an
\* error; and the loop is left in the end.
C33_LoopEndsAtEndOfFile ==
    /\ [][ (prog = "axfw" /\ WriteChunkCalls' # WriteChunkCalls) =>
              /\ pc = "download"
              /\ file_pos < Len(firmware_file)
              /\ Len(WriteChunkCalls') = Len(WriteChunkCalls) + 1 ]_vars
    /\ [][ (prog = "axfw" /\ pc = "download") =>
              /\ file_pos <= Len(firmware_file)
              /\ file_pos = Len(firmware_file) =>
                    (calls' = calls /\ outcome' = Raise("struct.error"))
              /\ outcome' = outcome =>
                    /\ file_pos < file_pos' /\ file_pos' <= Len(firmware_file)
                    /\ pc' = "download" <=> file_pos' < Len(firmware_file)
                    /\ pc' # "download" =>
                          Written' = ChunkStream(FirmwareBody).chunks
              /\ outcome' # outcome => (pc' = "done" /\ outcome'.kind = "raise") ]_vars
    /\ (prog = "axfw" /\ pc = "download") ~> (pc # "download")

C33_Witness ==
    /\ prog = "axfw" /\ file_type = "alc" /\ pc = "reset"
    /\ file_pos = Len(firmware_file) /\ Len(Written) = 2
    /\ outcome = NoOutcome

\* a run of axcfg_compare_u33 that unpacked the file's usage 0x33 entry
CompareDecoded ==
    /\ prog = "axcfg_compare_u33" /\ pc = "done"
    /\ calls[1].ok /\ u33_from_file # <<>>

CompareResult ==
    IF RuntimeCrc(u33_from_file) # RuntimeCrc(devU33) THEN Return(3)
    ELSE IF u33_from_file # devU33 THEN Return(4)
    ELSE Return(0)

PresentTargets(mask) ==
    SelectSeq([i \in 1..10 |-> i - 1], LAMBDA t : (mask \div (2 ^ t)) % 2 = 1)

\* the u41 record the touch-report layout gives for a body (body offset k is
\* body[k + 1]): none when the status mask and the extra information are 0
U41Layout(body) ==
    LET mask == body[1] + 256 * (body[2] % 4)
        extra == body[2] \div 4
        present == PresentTargets(mask)
    IN  IF mask = 0 /\ extra = 0 THEN <<>>
        ELSE << [ usage |-> 65,
                  fields |-> << body[53] + 256 * body[54], mask, extra,
                                [k \in 1..Len(present) |->
                                   LET t == present[k] IN
                                   << t,
                                      body[2 + 4 * t + 1] + 256 * body[2 + 4 * t + 2],
                                      body[4 + 4 * t + 1] + 256 * body[4 + 4 * t + 2],
                                      body[42 + t + 1] >>] >> ] >>

\* C35: the dispatch of a u41 frame never raises and hands the logger the
\* record of the touch-report layout: X and Y of target t are the 16-bit
\* little-endian values at body offsets 2+4t and 4+4t, Z the byte at 42+t,
\* the timestamp the 16-bit little-endian value at 52; target t is in the
\* record iff bit t of the 10-bit status mask is set; a record is logged
\* iff the status mask or the 6-bit extra information is not 0.
C35_U41Layout ==
    [][ ((PollDispatch \/ IrqDispatch) /\ B(report', 1) = 65) =>
            /\ ~decode_and_process_report(report').raised
            /\ decode_and_process_report(report').records = U41Layout(Body(report'))
            /\ report_log' =
                  report_log \o Handled(reports, U41Layout(Body(report'))) ]_vars

C35_Witness ==
    /\ prog = "axrpt" /\ report # <<>> /\ B(report, 1) = 65
    /\ reports[65] /\ report_log # <<>>
    /\ report_log[Len(report_log)].fields =
          << 263, 514, 1, << <<1, 513, 1027, 8>>, <<9, 261, 518, 12>> >> >>

\* C36: the dispatch of a frame of the maximum report length whose usage is
\* 0x01, 0x41 or 0x45 raises nothing, whatever its body, so that the polled
\* loop goes back to its test and ends through cancellation only.
C36_DecodersTotal ==
    [][ ( /\ PollDispatch \/ IrqDispatch
          /\ Len(report') = FrameLen
          /\ B(report', 1) \in DecodedUsages ) =>
            /\ ~decode_and_process_report(report').raised
            /\ outcome' = outcome
            /\ PollDispatch => pc' = "polled" ]_vars

\* the usages given with -r
EnabledArgs == { enabled[i] : i \in 1..Len(enabled) }

\* C37: every known usage starts disabled; the -r arguments enable the
\* known usages they name and nothing else, and add no key; a record handed
\* to the logger is emitted iff its usage is enabled; and the usages the
\* decoders log under are keys of the filter.
C37_FilterByUsage ==
    prog = "axrpt" =>
        /\ DOMAIN reports = KnownReports
        /\ DecodedUsages \subseteq DOMAIN reports
        /\ pc = "main" => \A u \in KnownReports : ~reports[u]
        /\ pc # "main" => \A u \in KnownReports : reports[u] <=> u \in EnabledArgs
        /\ \A i \in 1..Len(report_log) :
              /\ report_log[i].usage \in DOMAIN reports
              /\ report_log[i].emitted <=> reports[report_log[i].usage]

C37_Witness ==
    /\ prog = "axrpt" /\ enabled = <<1, 65>>
    /\ Len(report_log) = 2
    /\ report_log[1].usage = 65 /\ report_log[1].emitted
    /\ report_log[2].usage = 69 /\ ~report_log[2].emitted

\* C38: the device ID the compatibility check takes from the header is the
\* 16-bit little-endian value of header bytes 10..11, and it is this value
\* that is compared with the channel count of the device: without -f no
\* chunk of a file whose ID differs from the channel count is written.
C38_DeviceIdIsLittleEndian ==
    ( /\ AxfwRun /\ Len(firmware_file) >= AXFW_HEADER_LEN
      /\ pc \in {"download", "reset", "info_after", "validate_runtime_crc"} ) =>
        /\ NewDeviceId(firmware_file) = HeaderDeviceId
        /\ (~force_download /\ Written # <<>>) => HeaderDeviceId = DeviceChannels

====
